---- MODULE Spec2Model ----
(***************************************************************************)
(* A model of the viacep client library: the in-memory cache and the       *)
(* RedisCache (src/viacep/cache.go), their gob serialisation, the          *)
(* cache-key derivation, the ViaCep client and the HttpClient fetcher      *)
(* (src/viacep/client.go).  The cache is modelled twice: with each call    *)
(* one step (SpecCache and the specifications built on it), which its lock *)
(* justifies, and statement by statement with the lock (SpecLock).         *)
(*                                                                         *)
(* Durations and instants are in seconds.  Strings are TLA+ strings.       *)
(***************************************************************************)
EXTENDS Integers, Naturals, Sequences, FiniteSets, Bags, TLC

(***************************************************************************)
(* Program constants                                                       *)
(***************************************************************************)
cacheTTL == 3600

cachePrefix == "viacep:"

urlBase == "https://viacep.com.br"

\* type Address struct: thirteen string fields, in declaration order.
NumFields == 13

(***************************************************************************)
(* Bounds of the model                                                     *)
(***************************************************************************)
\* The clock advances in steps of Quantum seconds, MaxTicks times at most.
MaxTicks == 3

\* Expiry goroutines that may be asleep at the same time.
MaxTimers == 2

\* Client calls (goroutines inside Cep / Addresses) that may overlap.
MaxCalls == 2

\* Components a key is derived from (cacheKey is variadic).
MaxParts == 3

\* Largest retry count a fetcher is made with.
MaxRetry == 2

Quantum == cacheTTL \div 2

Horizon == MaxTicks * Quantum

(***************************************************************************)
(* Values.  A Go value is [type, val]: type is the Go type's name and val  *)
(* the sequence of Address structs it holds (one for an Address, any       *)
(* number for a []Address, none for the other types).  An Address is the   *)
(* tuple of its thirteen fields.                                           *)
(***************************************************************************)
ZeroAddress == [f \in 1..NumFields |-> ""]

AddrSe ==
  <<"01001-000", "Praca da Se", "lado impar", "", "Se", "Sao Paulo", "SP",
    "Sao Paulo", "Sudeste", "3550308", "1004", "11", "7107">>

AddrPoli ==
  <<"91790-072", "Rua Domingos Jose Poli", "", "", "Restinga", "Porto Alegre",
    "RS", "Rio Grande do Sul", "Sul", "4314902", "", "51", "8801">>

AddrVarella ==
  <<"91910-420", "Rua Jose Domingos Varella", "", "", "Cavalhada",
    "Porto Alegre", "RS", "Rio Grande do Sul", "Sul", "4314902", "", "51",
    "8801">>

AddressOf(a) == [type |-> "Address", val |-> <<a>>]

AddressesOf(s) == [type |-> "[]Address", val |-> s]

\* The value a Go nil pointer / nil error-free result stands for.
Nil == [type |-> "nil", val |-> <<>>]

\* `var address Address` and `var addresses []Address`.
ZeroValue(type) ==
  IF type = "Address" THEN AddressOf(ZeroAddress) ELSE [type |-> type, val |-> <<>>]

\* Types gob cannot encode (cache_test.go, "serialization error").
UnencodableTypes ==
  {"chan int", "func()", "map[chan int]int", "struct { x chan int }"}

DestTypes == {"Address", "[]Address"}

EncodableValues == {AddressOf(AddrSe), AddressesOf(<<AddrPoli, AddrVarella>>)}

UnencodableValues == {[type |-> t, val |-> <<>>] : t \in UnencodableTypes}

NoErr == ""

(***************************************************************************)
(* encoding/gob as the cache uses it.  A message carries the type and, for *)
(* every struct, the (field number, value) pairs of its non-zero fields:   *)
(* gob omits a field that holds its type's zero value, and the decoder     *)
(* assigns only the fields it receives.                                    *)
(***************************************************************************)
gobCanEncode(value) == value.type \in DestTypes

gobEncodeError(value) ==
  IF value.type = "struct { x chan int }"
    THEN "gob: type " \o value.type \o " has no exported fields"
  ELSE IF value.type = "map[chan int]int"
    THEN "gob NewTypeObject can't handle type: chan int"
  ELSE "gob NewTypeObject can't handle type: " \o value.type

gobEncodeStruct(a) == {<<f, a[f]>> : f \in {g \in 1..NumFields : a[g] # ""}}

gobEncode(value) ==
  [ty |-> value.type,
   items |-> [i \in 1..Len(value.val) |-> gobEncodeStruct(value.val[i])]]

\* []byte("invalid data"): bytes that are no gob message.
InvalidData == [ty |-> "invalid data", items |-> <<>>]

\* Faulty variant: the decoder drops the fields it receives.
gobDecodeStruct_dropsFields(item, into) == into

gobDecodeStruct(item, into) ==
  [f \in 1..NumFields |->
     IF \E p \in item : p[1] = f
       THEN (CHOOSE p \in item : p[1] = f)[2]
       ELSE into[f]]

\* Decode(dest): [ok, dest].  A message of another type, or no message at
\* all, is an error found before anything is stored through dest.
gobDecode(serialized, dest) ==
  IF serialized.ty # dest.type
    THEN [ok |-> FALSE, dest |-> dest]
    ELSE LET n == Len(serialized.items)
             base(i) == IF Len(dest.val) >= n THEN dest.val[i] ELSE ZeroAddress
         IN  [ok |-> TRUE,
              dest |-> [type |-> dest.type,
                        val |-> [i \in 1..n |->
                                   gobDecodeStruct(serialized.items[i], base(i))]]]

(***************************************************************************)
(* Key derivation.  The digest is a symbolic, injective image of the       *)
(* hashed text.                                                            *)
(***************************************************************************)
RECURSIVE stringsJoin(_, _)
stringsJoin(value, sep) ==
  IF Len(value) = 0 THEN ""
  ELSE IF Len(value) = 1 THEN value[1]
  ELSE value[1] \o sep \o stringsJoin(Tail(value), sep)

sha256Hex(text) == "sha256(" \o text \o ")"

\* Faulty variant: the components are joined by a space.
cacheKey_spaceSeparated(value) ==
  cachePrefix \o sha256Hex(stringsJoin(value, " "))

cacheKey(value) == cachePrefix \o sha256Hex(stringsJoin(value, ","))

(***************************************************************************)
(* memoryCache: the map and the expiry goroutines.                         *)
(***************************************************************************)
VARIABLES
  data,     \* memoryCache.data: key -> serialized bytes
  timers,   \* bag of sleeping expiry goroutines [key, due]
  now,      \* the clock
  watch,    \* the key whose history is kept, any one key, fixed at the start
  hist,     \* the last successful Set on `watch` and what happened since
  gone,     \* Delete was called on `watch` and nothing stored under it since
  mu,       \* the cache's sync.RWMutex: who is inside it
  calls,    \* bag of the Cep / Addresses calls waiting for the fetcher
  last      \* the operation that has just completed, with what it returned

cacheVars == <<data, timers, now, watch, hist, gone, mu>>

newMemoryCache == <<>>

(***************************************************************************)
(* mu sync.RWMutex.  w is the writers' mutex, held from the moment Lock()  *)
(* has it until Unlock(); while it is held no new reader gets in, and the  *)
(* writer has the lock once the readers that were in have left.  readers   *)
(* counts the goroutines between RLock() and RUnlock().  An operation that *)
(* is modelled as one step takes the lock and releases it within the step. *)
(***************************************************************************)
Unlocked == [w |-> FALSE, readers |-> 0]

\* c.mu.Lock(), first half: it gets the writers' mutex when no one has it.
RWMutex_canLock(m) == ~m.w

RWMutex_Lock(m) == [m EXCEPT !.w = TRUE]

\* c.mu.Lock(), second half: it returns once no reader is left inside.
RWMutex_drained(m) == m.readers = 0

\* c.mu.Unlock()
RWMutex_Unlock(m) == [m EXCEPT !.w = FALSE]

\* Faulty variant: a reader gets in while a writer is inside.
RWMutex_canRLock_always(m) == TRUE

\* c.mu.RLock(): it returns when no writer has the writers' mutex.
RWMutex_canRLock(m) == ~m.w

RWMutex_RLock(m) == [m EXCEPT !.readers = @ + 1]

\* c.mu.RUnlock()
RWMutex_RUnlock(m) == [m EXCEPT !.readers = @ - 1]

\* Faulty variant: the decoder's error is ignored.
memoryCache_Get_ignoresDecodeError(d, key, dest) ==
  IF key \notin DOMAIN d
    THEN [found |-> FALSE, dest |-> dest]
    ELSE [found |-> TRUE, dest |-> gobDecode(d[key], dest).dest]

memoryCache_Get(d, key, dest) ==
  IF key \notin DOMAIN d
    THEN [found |-> FALSE, dest |-> dest]
    ELSE LET r == gobDecode(d[key], dest)
         IN  [found |-> r.ok, dest |-> r.dest]

\* Faulty variant: the map is left with the one entry written.
memoryCache_Store_dropsOthers(d, key, serialized) ==
  [k \in {key} |-> serialized]

\* Faulty variant: an entry already in the map is kept.
memoryCache_Store_keepsExisting(d, key, serialized) ==
  [k \in DOMAIN d \cup {key} |-> IF k \in DOMAIN d THEN d[k] ELSE serialized]

\* c.data[key] = buffer.Bytes()
memoryCache_Store(d, key, serialized) ==
  [k \in DOMAIN d \cup {key} |-> IF k = key THEN serialized ELSE d[k]]

\* if ttl > 0 { go func() { time.Sleep(ttl); c.Delete(key) }() }
memoryCache_Spawn(tm, key, ttl, t) ==
  IF ttl > 0 THEN tm (+) SetToBag({[key |-> key, due |-> t + ttl]}) ELSE tm

\* Faulty variant: the map is written and the goroutine started before the
\* encoder's error is looked at.
memoryCache_Set_writesBeforeCheck(d, tm, key, value, ttl, t) ==
  [err |-> IF gobCanEncode(value) THEN NoErr
           ELSE "failed to encode value of type " \o value.type \o ": "
                  \o gobEncodeError(value),
   data |-> memoryCache_Store(d, key,
              IF gobCanEncode(value) THEN gobEncode(value)
              ELSE [ty |-> "", items |-> <<>>]),
   timers |-> memoryCache_Spawn(tm, key, ttl, t)]

\* Set: [err, data, timers].
memoryCache_Set(d, tm, key, value, ttl, t) ==
  IF ~gobCanEncode(value)
    THEN [err |-> "failed to encode value of type " \o value.type \o ": "
                    \o gobEncodeError(value),
          data |-> d, timers |-> tm]
    ELSE [err |-> NoErr,
          data |-> memoryCache_Store(d, key, gobEncode(value)),
          timers |-> memoryCache_Spawn(tm, key, ttl, t)]

\* Faulty variant: the entry is left in the map.
memoryCache_Delete_keepsEntry(d, key) == d

\* Faulty variant: the whole map is cleared.
memoryCache_Delete_clearsMap(d, key) == <<>>

\* delete(c.data, key)
memoryCache_Delete(d, key) == [k \in DOMAIN d \ {key} |-> d[k]]

(***************************************************************************)
(* History kept for the properties: it is written by the actions and read  *)
(* by no guard.  It follows one key, `watch`, which is any key.            *)
(***************************************************************************)
NoSet == [set |-> FALSE]

\* A successful Set(watch, value, ttl) at instant t over the entry `prior`.
\* The instant is kept for an entry that expires, the overwritten entry for
\* one that does not.
Remember(value, ttl, t, prior) ==
  [set |-> TRUE, value |-> value, ttl |-> ttl,
   at |-> IF ttl > 0 THEN t ELSE 0,
   prior |-> IF ttl > 0 THEN "any" ELSE prior,
   deleted |-> FALSE]

\* A Delete(watch) call: by a client of the cache it ends the history, by an
\* expiry goroutine it is noted in it.
NoteDelete(h, byClient) ==
  IF h.set /\ ~byClient
    THEN [h EXCEPT !.deleted = TRUE, !.prior = "any"]
    ELSE NoSet

PriorOf(d, key) ==
  IF key \notin DOMAIN d THEN "absent"
  ELSE IF d[key] = InvalidData THEN "invalid"
  ELSE "gob"

(***************************************************************************)
(* The cache driven directly, as cache_test.go drives it.                  *)
(***************************************************************************)
TestKeys == {"user:1", "user:2"}

TTLs == {0, cacheTTL}

InitCache(keys) ==
  /\ data = newMemoryCache
  /\ timers = EmptyBag
  /\ now = 0
  /\ watch \in keys
  /\ mu = Unlocked
  /\ hist = NoSet
  /\ gone = FALSE
  /\ calls = EmptyBag

Set(key, value, ttl) ==
  /\ ttl > 0 => BagCardinality(timers) < MaxTimers
  /\ LET r == memoryCache_Set(data, timers, key, value, ttl, now)
         stored == r.err = NoErr /\ key = watch
     IN  /\ data' = r.data
         /\ timers' = r.timers
         /\ hist' = IF stored
                      THEN Remember(value, ttl, now, PriorOf(data, key))
                      ELSE hist
         /\ gone' = (gone /\ ~stored)
         /\ last' = [op |-> "Set", key |-> key, value |-> value, ttl |-> ttl,
                     err |-> r.err]
  /\ UNCHANGED <<now, watch, mu, calls>>

Get(key, destType) ==
  /\ LET r == memoryCache_Get(data, key, ZeroValue(destType))
     IN  last' = [op |-> "Get", key |-> key, destBefore |-> ZeroValue(destType),
                  dest |-> r.dest, found |-> r.found]
  /\ UNCHANGED <<cacheVars, calls>>

Delete(key) ==
  /\ data' = memoryCache_Delete(data, key)
  /\ hist' = IF key = watch THEN NoteDelete(hist, TRUE) ELSE hist
  /\ gone' = (gone \/ key = watch)
  /\ last' = [op |-> "Delete", key |-> key, err |-> NoErr]
  /\ UNCHANGED <<timers, now, watch, mu, calls>>

\* The test writes bytes that are no gob message straight into the map.
Corrupt(key) ==
  /\ data' = memoryCache_Store(data, key, InvalidData)
  /\ hist' = IF key = watch THEN NoSet ELSE hist
  /\ gone' = (gone /\ key # watch)
  /\ last' = [op |-> "Corrupt", key |-> key]
  /\ UNCHANGED <<timers, now, watch, mu, calls>>

\* An expiry goroutine wakes when its sleep is over and calls Delete.
Expire(t) ==
  /\ BagIn(t, timers)
  /\ t.due <= now
  /\ timers' = timers (-) SetToBag({t})
  /\ data' = memoryCache_Delete(data, t.key)
  /\ hist' = IF t.key = watch THEN NoteDelete(hist, FALSE) ELSE hist
  /\ gone' = (gone \/ t.key = watch)
  /\ last' = [op |-> "Expire", key |-> t.key]
  /\ UNCHANGED <<now, watch, mu, calls>>

\* Time passes.  A goroutine whose sleep is over runs before the clock
\* reaches the next instant of the model.
Tick ==
  /\ now < Horizon
  /\ \A t \in BagToSet(timers) : t.due > now
  /\ now' = now + Quantum
  /\ last' = [op |-> "Tick"]
  /\ UNCHANGED <<data, timers, watch, mu, hist, gone, calls>>

vars == <<data, timers, now, watch, hist, gone, mu, calls, last>>

InitTest == InitCache(TestKeys) /\ last = [op |-> "new"]

NextCache ==
  \/ \E key \in TestKeys, value \in EncodableValues, ttl \in TTLs :
        Set(key, value, ttl)
  \/ \E key \in TestKeys, destType \in DestTypes : Get(key, destType)
  \/ \E key \in TestKeys : Delete(key)
  \/ \E key \in TestKeys : Corrupt(key)
  \/ \E t \in BagToSet(timers) : Expire(t)
  \/ Tick

SpecCache == InitTest /\ [][NextCache]_vars

\* The same cache, also given values gob cannot encode; no key's history
\* is kept.
NoKey == ""

InitEncode == InitCache({NoKey}) /\ last = [op |-> "new"]

NextEncode ==
  \/ \E key \in TestKeys, value \in EncodableValues \cup UnencodableValues,
        ttl \in TTLs : Set(key, value, ttl)
  \/ \E key \in TestKeys, destType \in DestTypes : Get(key, destType)
  \/ \E key \in TestKeys : Delete(key)
  \/ \E key \in TestKeys : Corrupt(key)
  \/ \E t \in BagToSet(timers) : Expire(t)
  \/ Tick

SpecEncode == InitEncode /\ [][NextEncode]_vars

(***************************************************************************)
(* The ViaCep client over its own memoryCache.  A call looks its key up in *)
(* the cache and, on a miss, calls the fetcher; the fetcher's answer comes *)
(* in a later step, so calls of different goroutines overlap.              *)
(***************************************************************************)
Ceps == {"01001000", "RS,Porto Alegre,Domingos+Jose"}

Queries == {<<"RS", "Porto Alegre", "Domingos+Jose">>}

CepBodies == {AddressOf(AddrSe), AddressOf(AddrPoli)}

AddressesBodies == {AddressesOf(<<AddrPoli, AddrVarella>>)}

\* What a fetcher's Get returns when it fails (HttpClient.Get's two errors).
FetchErrors(url) ==
  {"API request to " \o url \o " returned status code 500; expected 200 (OK)",
   "failed to send GET request to " \o url \o ": context deadline exceeded"}

ViaCep_Cep_key(cep) == cacheKey(<<cep>>)

ViaCep_Cep_url(cep) == urlBase \o "/ws/" \o cep \o "/json/"

ViaCep_Addresses_key(uf, cidade, logradouro) == cacheKey(<<uf, cidade, logradouro>>)

ViaCep_Addresses_url(uf, cidade, logradouro) ==
  urlBase \o "/ws/" \o uf \o "/" \o cidade \o "/" \o logradouro \o "/json/"

\* Faulty variant: the entry is stored without expiry.
ViaCep_Cep_store_noTTL(d, tm, key, address, t) ==
  memoryCache_Set(d, tm, key, address, 0, t)

\* _ = v.cache.Set(ctx, key, address, cacheTTL)
ViaCep_Cep_store(d, tm, key, address, t) ==
  memoryCache_Set(d, tm, key, address, cacheTTL, t)

\* _ = v.cache.Set(ctx, key, addresses, cacheTTL)
ViaCep_Addresses_store(d, tm, key, addresses, t) ==
  memoryCache_Set(d, tm, key, addresses, cacheTTL, t)

\* Faulty variant: the destination, still zero, is cached although the fetch
\* failed.
ViaCep_Cep_onError_caches(d, tm, key, address, err, t) ==
  LET s == memoryCache_Set(d, tm, key, address, cacheTTL, t)
  IN  [result |-> Nil, err |-> err, data |-> s.data, timers |-> s.timers]

\* if err := v.httpClient.Get(ctx, url, &address); err != nil { return nil, err }
ViaCep_Cep_onError(d, tm, key, address, err, t) ==
  [result |-> Nil, err |-> err, data |-> d, timers |-> tm]

ViaCep_Addresses_onError(d, tm, key, addresses, err, t) ==
  [result |-> Nil, err |-> err, data |-> d, timers |-> tm]

ClientKeys ==
  {ViaCep_Cep_key(cep) : cep \in Ceps}
    \cup {ViaCep_Addresses_key(q[1], q[2], q[3]) : q \in Queries}

\* Faulty variant: a call that misses while a call for the same key is
\* waiting for the fetcher shares that call's request.
Lookup_coalesces(op, args, key, url, destType) ==
  /\ BagCardinality(calls) < MaxCalls
  /\ LET r == memoryCache_Get(data, key, ZeroValue(destType))
         c == [op |-> op, args |-> args, key |-> key, url |-> url,
               dest |-> r.dest, fetches |-> 1]
     IN  IF r.found
           THEN /\ last' = [op |-> op, args |-> args, hit |-> TRUE,
                            result |-> r.dest, err |-> NoErr, fetches |-> 0]
                /\ UNCHANGED calls
           ELSE /\ calls' = IF BagIn(c, calls) THEN calls
                            ELSE calls (+) SetToBag({c})
                /\ last' = [op |-> "Fetch", call |-> op, args |-> args,
                            url |-> url]
  /\ UNCHANGED cacheVars

\* A goroutine enters the call: the cache is looked up; a hit returns, a
\* miss calls the fetcher.
Lookup(op, args, key, url, destType) ==
  /\ BagCardinality(calls) < MaxCalls
  /\ LET r == memoryCache_Get(data, key, ZeroValue(destType))
     IN  IF r.found
           THEN /\ last' = [op |-> op, args |-> args, hit |-> TRUE,
                            result |-> r.dest, err |-> NoErr, fetches |-> 0]
                /\ UNCHANGED calls
           ELSE /\ calls' = calls (+) SetToBag({[op |-> op, args |-> args,
                                                 key |-> key, url |-> url,
                                                 dest |-> r.dest,
                                                 fetches |-> 1]})
                /\ last' = [op |-> "Fetch", call |-> op, args |-> args,
                            url |-> url]
  /\ UNCHANGED cacheVars

Cep(cep) ==
  Lookup("Cep", <<cep>>, ViaCep_Cep_key(cep), ViaCep_Cep_url(cep), "Address")

Addresses(uf, cidade, logradouro) ==
  Lookup("Addresses", <<uf, cidade, logradouro>>,
         ViaCep_Addresses_key(uf, cidade, logradouro),
         ViaCep_Addresses_url(uf, cidade, logradouro), "[]Address")

\* The call c returns with the outcome r of its last lines; `stored` tells
\* that cache.Set was called and returned nil, `fetched` is what the fetcher
\* gave (a body or an error).
Return(c, r, stored, fetched) ==
  /\ data' = r.data
  /\ timers' = r.timers
  /\ hist' = IF stored /\ c.key = watch
               THEN Remember(r.result, cacheTTL, now, PriorOf(data, c.key))
               ELSE hist
  /\ gone' = (gone /\ ~(stored /\ c.key = watch))
  /\ calls' = calls (-) SetToBag({c})
  /\ last' = [op |-> c.op, args |-> c.args, hit |-> FALSE,
              result |-> r.result, err |-> r.err, fetches |-> c.fetches,
              fetched |-> fetched]
  /\ UNCHANGED <<now, watch, mu>>

\* The fetcher has stored the body through dest and returned nil.
CepFetched(c, body) ==
  /\ BagIn(c, calls)
  /\ c.op = "Cep"
  /\ BagCardinality(timers) < MaxTimers
  /\ LET s == ViaCep_Cep_store(data, timers, c.key, body, now)
     IN  Return(c, [result |-> body, err |-> NoErr, data |-> s.data,
                    timers |-> s.timers], s.err = NoErr, body)

AddressesFetched(c, body) ==
  /\ BagIn(c, calls)
  /\ c.op = "Addresses"
  /\ BagCardinality(timers) < MaxTimers
  /\ LET s == ViaCep_Addresses_store(data, timers, c.key, body, now)
     IN  Return(c, [result |-> body, err |-> NoErr, data |-> s.data,
                    timers |-> s.timers], s.err = NoErr, body)

\* The fetcher has returned an error.
CepFailed(c, err) ==
  /\ BagIn(c, calls)
  /\ c.op = "Cep"
  /\ err \in FetchErrors(c.url)
  /\ Return(c, ViaCep_Cep_onError(data, timers, c.key, c.dest, err, now),
            FALSE, err)

AddressesFailed(c, err) ==
  /\ BagIn(c, calls)
  /\ c.op = "Addresses"
  /\ err \in FetchErrors(c.url)
  /\ Return(c, ViaCep_Addresses_onError(data, timers, c.key, c.dest, err, now),
            FALSE, err)

AllFetchErrors ==
  UNION {FetchErrors(ViaCep_Cep_url(cep)) : cep \in Ceps}
    \cup UNION {FetchErrors(ViaCep_Addresses_url(q[1], q[2], q[3])) : q \in Queries}

InitClient == InitCache(ClientKeys) /\ last = [op |-> "new"]

NextClient ==
  \/ \E cep \in Ceps : Cep(cep)
  \/ \E q \in Queries : Addresses(q[1], q[2], q[3])
  \/ \E c \in BagToSet(calls), body \in CepBodies : CepFetched(c, body)
  \/ \E c \in BagToSet(calls), body \in AddressesBodies : AddressesFetched(c, body)
  \/ \E c \in BagToSet(calls), err \in AllFetchErrors : CepFailed(c, err)
  \/ \E c \in BagToSet(calls), err \in AllFetchErrors : AddressesFailed(c, err)
  \/ \E t \in BagToSet(timers) : Expire(t)
  \/ Tick

SpecClient == InitClient /\ [][NextClient]_vars

\* The same client when its calls do not overlap: a call is made only when
\* no other call is in progress.
NextSerial ==
  \/ \E cep \in Ceps : calls = EmptyBag /\ Cep(cep)
  \/ \E q \in Queries : calls = EmptyBag /\ Addresses(q[1], q[2], q[3])
  \/ \E c \in BagToSet(calls), body \in CepBodies : CepFetched(c, body)
  \/ \E c \in BagToSet(calls), body \in AddressesBodies : AddressesFetched(c, body)
  \/ \E c \in BagToSet(calls), err \in AllFetchErrors : CepFailed(c, err)
  \/ \E c \in BagToSet(calls), err \in AllFetchErrors : AddressesFailed(c, err)
  \/ \E t \in BagToSet(timers) : Expire(t)
  \/ Tick

SpecSerial == InitClient /\ [][NextSerial]_vars

(***************************************************************************)
(* RedisCache: the adapter over a remote store.  Under SpecRedis `data` is *)
(* the remote store, key -> [val, ttl]: the bytes and the expiry the entry *)
(* was written with (0: none).  A remote call is answered "OK" or fails    *)
(* with the error the reply names; a write that fails may or may not have  *)
(* taken effect at the store.                                              *)
(***************************************************************************)
RedisReplies == {"OK", "error"}

RedisNil == "redis: nil"

\* r.client.Get(ctx, key).Result(): [val, err, cmd].
redis_Get(store, key, reply) ==
  [val |-> IF reply = "OK" /\ key \in DOMAIN store THEN store[key].val
           ELSE InvalidData,
   err |-> IF reply # "OK" THEN reply
           ELSE IF key \notin DOMAIN store THEN RedisNil
           ELSE NoErr,
   cmd |-> [name |-> "GET", key |-> key]]

\* What client.Set(ctx, key, bytes, ttl) does at the store when it arrives.
redis_Set(store, key, val, ttl) ==
  [k \in DOMAIN store \cup {key} |->
     IF k = key THEN [val |-> val, ttl |-> ttl] ELSE store[k]]

\* What client.Del(ctx, key) does at the store when it arrives.
redis_Del(store, key) == [k \in DOMAIN store \ {key} |-> store[k]]

\* Faulty variant: a failed remote call is answered from a zero buffer as if
\* it were a hit.
RedisCache_Get_hitOnError(store, key, dest, reply) ==
  LET g == redis_Get(store, key, reply)
      r == gobDecode(g.val, dest)
  IN  [found |-> g.err # NoErr \/ r.ok,
       dest |-> IF g.err # NoErr THEN dest ELSE r.dest,
       remote |-> <<g.cmd>>]

\* Get: [found, dest, remote]; remote lists the calls made to the store.
RedisCache_Get(store, key, dest, reply) ==
  LET g == redis_Get(store, key, reply)
      r == gobDecode(g.val, dest)
  IN  IF g.err # NoErr
        THEN [found |-> FALSE, dest |-> dest, remote |-> <<g.cmd>>]
        ELSE [found |-> r.ok, dest |-> r.dest, remote |-> <<g.cmd>>]

\* Faulty variant: the entry is forwarded without its expiry.
RedisCache_Set_dropsTTL(store, key, value, ttl, reply, applied) ==
  IF ~gobCanEncode(value)
    THEN [err |-> "failed to encode value of type " \o value.type \o ": "
                    \o gobEncodeError(value),
          store |-> store, remote |-> <<>>]
    ELSE LET cmd == [name |-> "SET", key |-> key, val |-> gobEncode(value),
                     ttl |-> 0]
         IN  [err |-> IF reply = "OK" THEN NoErr
                      ELSE "failed to set value in cache: " \o reply,
              store |-> IF reply = "OK" \/ applied
                          THEN redis_Set(store, key, cmd.val, cmd.ttl)
                          ELSE store,
              remote |-> <<cmd>>]

\* Faulty variant: the remote set is issued before the encoder's error is
\* looked at.
RedisCache_Set_sendsBeforeCheck(store, key, value, ttl, reply, applied) ==
  LET cmd == [name |-> "SET", key |-> key,
              val |-> IF gobCanEncode(value) THEN gobEncode(value)
                      ELSE [ty |-> "", items |-> <<>>],
              ttl |-> ttl]
  IN  [err |-> IF ~gobCanEncode(value)
                 THEN "failed to encode value of type " \o value.type \o ": "
                        \o gobEncodeError(value)
               ELSE IF reply = "OK" THEN NoErr
               ELSE "failed to set value in cache: " \o reply,
       store |-> IF reply = "OK" \/ applied
                   THEN redis_Set(store, key, cmd.val, cmd.ttl)
                   ELSE store,
       remote |-> <<cmd>>]

\* Set: [err, store, remote].
RedisCache_Set(store, key, value, ttl, reply, applied) ==
  IF ~gobCanEncode(value)
    THEN [err |-> "failed to encode value of type " \o value.type \o ": "
                    \o gobEncodeError(value),
          store |-> store, remote |-> <<>>]
    ELSE LET cmd == [name |-> "SET", key |-> key, val |-> gobEncode(value),
                     ttl |-> ttl]
         IN  [err |-> IF reply = "OK" THEN NoErr
                      ELSE "failed to set value in cache: " \o reply,
              store |-> IF reply = "OK" \/ applied
                          THEN redis_Set(store, key, cmd.val, cmd.ttl)
                          ELSE store,
              remote |-> <<cmd>>]

\* Faulty variant: the remote's error is returned as it came, unwrapped.
RedisCache_Delete_unwrapped(store, key, reply, applied) ==
  [err |-> IF reply = "OK" THEN NoErr ELSE reply,
   store |-> IF reply = "OK" \/ applied THEN redis_Del(store, key)
             ELSE store,
   remote |-> <<[name |-> "DEL", key |-> key]>>]

\* Delete: [err, store, remote].
RedisCache_Delete(store, key, reply, applied) ==
  LET cmd == [name |-> "DEL", key |-> key]
  IN  [err |-> IF reply = "OK" THEN NoErr
               ELSE "failed to delete key from cache: " \o reply,
       store |-> IF reply = "OK" \/ applied THEN redis_Del(store, key)
                 ELSE store,
       remote |-> <<cmd>>]

RedisKeys == {"user:1", ViaCep_Cep_key("01001000")}

\* A reply that is "OK" took effect; a failed one did or did not.
Applied(reply) == IF reply = "OK" THEN {TRUE} ELSE BOOLEAN

RedisSet(key, value, ttl, reply, applied) ==
  /\ LET r == RedisCache_Set(data, key, value, ttl, reply, applied)
     IN  /\ data' = r.store
         /\ last' = [op |-> "RedisSet", key |-> key, value |-> value,
                     ttl |-> ttl, err |-> r.err, remote |-> r.remote,
                     reply |-> reply, applied |-> applied,
                     had |-> key \in DOMAIN data]
  /\ UNCHANGED <<timers, now, watch, mu, hist, gone, calls>>

\* Whether the call just before was a Set on the key whose remote set
\* failed, and if so whether the key was there before it and whether the
\* write reached the store all the same.
AfterSet(key) ==
  IF last.op = "RedisSet" /\ last.key = key /\ last.reply # "OK"
       /\ last.remote # <<>>
    THEN [failed |-> TRUE, had |-> last.had, applied |-> last.applied]
    ELSE [failed |-> FALSE]

RedisGet(key, destType, reply) ==
  /\ LET r == RedisCache_Get(data, key, ZeroValue(destType), reply)
     IN  last' = [op |-> "RedisGet", key |-> key,
                  destBefore |-> ZeroValue(destType), dest |-> r.dest,
                  found |-> r.found, remote |-> r.remote, reply |-> reply,
                  afterSet |-> AfterSet(key)]
  /\ UNCHANGED <<cacheVars, calls>>

RedisDelete(key, reply, applied) ==
  /\ LET r == RedisCache_Delete(data, key, reply, applied)
     IN  /\ data' = r.store
         /\ last' = [op |-> "RedisDelete", key |-> key, err |-> r.err,
                     remote |-> r.remote, reply |-> reply]
  /\ UNCHANGED <<timers, now, watch, mu, hist, gone, calls>>

\* The store answers with bytes that are no gob message (the test's mock is
\* told to): some other writer has stored them under the key.
RedisCorrupt(key) ==
  /\ data' = redis_Set(data, key, InvalidData, 0)
  /\ last' = [op |-> "RedisCorrupt", key |-> key]
  /\ UNCHANGED <<timers, now, watch, mu, hist, gone, calls>>

\* The store drops an entry written with an expiry.
RedisExpire(key) ==
  /\ key \in DOMAIN data
  /\ data[key].ttl > 0
  /\ data' = redis_Del(data, key)
  /\ last' = [op |-> "RedisExpire", key |-> key]
  /\ UNCHANGED <<timers, now, watch, mu, hist, gone, calls>>

(***************************************************************************)
(* The ViaCep client with a RedisCache as its cache.                       *)
(***************************************************************************)
\* Faulty variant: a failed cache lookup is returned to the caller as an
\* error.
ViaCep_afterGet_returnsMiss(g) ==
  IF g.found
    THEN [returns |-> TRUE, result |-> g.dest, err |-> NoErr]
    ELSE [returns |-> TRUE, result |-> Nil, err |-> "cache: key not found"]

\* if found := v.cache.Get(ctx, key, &address); found { return &address, nil }
ViaCep_afterGet(g) ==
  IF g.found
    THEN [returns |-> TRUE, result |-> g.dest, err |-> NoErr]
    ELSE [returns |-> FALSE, result |-> Nil, err |-> NoErr]

RedisLookup(op, args, key, url, destType, reply) ==
  /\ BagCardinality(calls) < MaxCalls
  /\ LET g == RedisCache_Get(data, key, ZeroValue(destType), reply)
         a == ViaCep_afterGet(g)
     IN  IF a.returns
           THEN /\ last' = [op |-> op, args |-> args, hit |-> TRUE,
                            result |-> a.result, err |-> a.err,
                            fetches |-> 0, reply |-> reply]
                /\ UNCHANGED calls
           ELSE /\ calls' = calls (+) SetToBag({[op |-> op, args |-> args,
                                                 key |-> key, url |-> url,
                                                 dest |-> g.dest,
                                                 fetches |-> 1]})
                /\ last' = [op |-> "Fetch", call |-> op, args |-> args,
                            url |-> url, reply |-> reply]
  /\ UNCHANGED cacheVars

RedisCep(cep, reply) ==
  RedisLookup("Cep", <<cep>>, ViaCep_Cep_key(cep), ViaCep_Cep_url(cep),
              "Address", reply)

RedisAddresses(uf, cidade, logradouro, reply) ==
  RedisLookup("Addresses", <<uf, cidade, logradouro>>,
              ViaCep_Addresses_key(uf, cidade, logradouro),
              ViaCep_Addresses_url(uf, cidade, logradouro), "[]Address", reply)

\* Faulty variant: the error of cache.Set is returned to the caller.
ViaCep_afterSet_returnsError(value, setErr) ==
  IF setErr = NoErr THEN [result |-> value, err |-> NoErr]
  ELSE [result |-> Nil, err |-> setErr]

\* _ = v.cache.Set(...); return &address, nil
ViaCep_afterSet(value, setErr) == [result |-> value, err |-> NoErr]

\* The fetcher has returned nil: _ = v.cache.Set(ctx, key, value, cacheTTL),
\* then the return.  What cache.Set returned, whether the key was at the
\* store before and whether a failed write reached it are kept in `last`.
RedisFetched(c, body, reply, applied) ==
  /\ BagIn(c, calls)
  /\ body.type = (IF c.op = "Cep" THEN "Address" ELSE "[]Address")
  /\ LET s == RedisCache_Set(data, c.key, body, cacheTTL, reply, applied)
         r == ViaCep_afterSet(body, s.err)
     IN  /\ data' = s.store
         /\ last' = [op |-> c.op, args |-> c.args, hit |-> FALSE,
                     result |-> r.result, err |-> r.err,
                     fetches |-> c.fetches, fetched |-> body,
                     setErr |-> s.err, applied |-> applied,
                     had |-> c.key \in DOMAIN data]
  /\ calls' = calls (-) SetToBag({c})
  /\ UNCHANGED <<timers, now, watch, hist, gone, mu>>

\* The fetcher has returned an error.
RedisFailed(c, err) ==
  /\ BagIn(c, calls)
  /\ err \in FetchErrors(c.url)
  /\ Return(c, IF c.op = "Cep"
                 THEN ViaCep_Cep_onError(data, timers, c.key, c.dest, err, now)
                 ELSE ViaCep_Addresses_onError(data, timers, c.key, c.dest,
                                               err, now),
            FALSE, err)

InitRedis ==
  /\ data = <<>>
  /\ timers = EmptyBag
  /\ now = 0
  /\ watch = NoKey
  /\ mu = Unlocked
  /\ hist = NoSet
  /\ gone = FALSE
  /\ calls = EmptyBag
  /\ last = [op |-> "new"]

NextRedis ==
  \/ \E key \in RedisKeys, value \in EncodableValues, ttl \in TTLs,
        reply \in RedisReplies :
        \E applied \in Applied(reply) : RedisSet(key, value, ttl, reply, applied)
  \/ \E key \in RedisKeys, value \in UnencodableValues, ttl \in TTLs :
        RedisSet(key, value, ttl, "OK", TRUE)
  \/ \E key \in RedisKeys, destType \in DestTypes, reply \in RedisReplies :
        RedisGet(key, destType, reply)
  \/ \E key \in RedisKeys, reply \in RedisReplies :
        \E applied \in Applied(reply) : RedisDelete(key, reply, applied)
  \/ \E key \in RedisKeys : RedisCorrupt(key)
  \/ \E key \in DOMAIN data : RedisExpire(key)
  \/ \E reply \in RedisReplies : RedisCep("01001000", reply)
  \/ \E q \in Queries, reply \in RedisReplies :
        RedisAddresses(q[1], q[2], q[3], reply)
  \/ \E c \in BagToSet(calls), body \in CepBodies \cup AddressesBodies,
        reply \in RedisReplies :
        \E applied \in Applied(reply) : RedisFetched(c, body, reply, applied)
  \/ \E c \in BagToSet(calls), err \in AllFetchErrors : RedisFailed(c, err)

SpecRedis == InitRedis /\ [][NextRedis]_vars

(***************************************************************************)
(* HttpClient: the fetcher over a resty client.  One Get is a call record  *)
(* in `calls`: the HTTP attempts it has sent, whether an attempt is in     *)
(* flight or the call waits before the next one, and its context.  The     *)
(* network answers an attempt with a response or fails it; a context that  *)
(* can end (timeout, cancel) may end at any moment of the call.            *)
(***************************************************************************)
StatusOK == 200

\* Retry counts given to NewHttpClient: 0..MaxRetry.
Retries == 0..MaxRetry

Contexts == {"background", "timeout", "cancel"}

\* ctx.Err() once the context is done.
ctxErr(ctx) ==
  IF ctx = "cancel" THEN "context canceled" ELSE "context deadline exceeded"

HttpUrls == {ViaCep_Cep_url("01001000"), "httpdd://invalid-url"}

Statuses == {200, 201, 404, 500}

\* What is passed as dest: a pointer or not, and its type as %s prints it.
HttpDests ==
  {[ptr |-> TRUE, type |-> "*map[string]string"],
   [ptr |-> FALSE, type |-> "string"],
   [ptr |-> FALSE, type |-> "viacep.Address"]}

PtrToAddress == [ptr |-> TRUE, type |-> "*viacep.Address"]

\* A URL whose scheme the transport knows; a request to another is never
\* sent.
Supported(url) == url # "httpdd://invalid-url"

\* Why an attempt could not be sent or was not answered.
TransportCause(url) ==
  IF Supported(url) THEN "dial tcp: connect: connection refused"
  ELSE "unsupported protocol scheme \"httpdd\""

DecodeCause == "invalid character '<' looking for beginning of value"

\* Faulty variant: the check of dest is left out.
HttpClient_Get_begin_noCheck(url, dest) ==
  [returned |-> FALSE, err |-> NoErr]

\* if reflect.ValueOf(dest).Kind() != reflect.Ptr { return fmt.Errorf(...) }
HttpClient_Get_begin(url, dest) ==
  IF ~dest.ptr
    THEN [returned |-> TRUE,
          err |-> "expected a pointer for 'dest', but got " \o dest.type]
    ELSE [returned |-> FALSE, err |-> NoErr]

\* Faulty variant: one retry more than configured.
resty_needsRetry_oneMore(attempts, maxRetry) == attempts <= maxRetry + 1

\* SetRetryCount(maxRetry): a failed attempt is followed by another while
\* fewer than maxRetry retries have been made.
resty_needsRetry(attempts, maxRetry) == attempts <= maxRetry

\* Faulty variant: a context that ends is not looked at; the attempt is
\* taken to have been answered.
resty_ctxDone_ignored(url, ctx, phase) == [status |-> StatusOK, err |-> NoErr]

\* req.Get(url) when the context ends: the attempt in flight fails with the
\* context's error inside the *url.Error of the request; the wait between
\* two attempts ends with the context's error itself.
resty_ctxDone(url, ctx, phase) ==
  [status |-> 0,
   err |-> IF phase = "inflight"
             THEN "Get \"" \o url \o "\": " \o ctxErr(ctx)
             ELSE ctxErr(ctx)]

\* req.SetResult(dest).Get(url) when a response arrives: a 2xx body is
\* decoded into dest and a body that does not decode is an error.
resty_response(url, status, decodes) ==
  [status |-> status,
   err |-> IF status >= 200 /\ status < 300 /\ ~decodes THEN DecodeCause
           ELSE NoErr]

\* req.Get(url) when the last attempt allowed has failed to be sent.
resty_transportError(url) ==
  [status |-> 0, err |-> "Get \"" \o url \o "\": " \o TransportCause(url)]

\* Faulty variant: the status of the response is not looked at.
HttpClient_Get_end_anyStatus(url, resp) ==
  IF resp.err # NoErr
    THEN "failed to send GET request to " \o url \o ": " \o resp.err
    ELSE NoErr

\* The lines of Get after req.Get(url) has returned (resp, err).
HttpClient_Get_end(url, resp) ==
  IF resp.err # NoErr
    THEN "failed to send GET request to " \o url \o ": " \o resp.err
  ELSE IF resp.status # StatusOK
    THEN "API request to " \o url \o " returned status code "
           \o ToString(resp.status) \o "; expected " \o ToString(StatusOK)
           \o " (OK)"
  ELSE NoErr

\* var headersDefault: the headers the fetcher puts on every request.
headersDefault ==
  [h \in {"Content-Type", "Accept"} |-> "application/json"]

\* Faulty variant: the request is built without the default headers.
HttpClient_Get_request_noHeaders(url) ==
  [method |-> "GET", url |-> url, headers |-> <<>>]

\* req.SetHeaders(headersDefault).SetResult(dest).Get(url): the request that
\* is executed, once for the first attempt and once more for every retry.
HttpClient_Get_request(url) ==
  [method |-> "GET", url |-> url, headers |-> headersDefault]

\* The record of a call that has passed the check of dest and sent its
\* first attempt; every attempt of the call sends the same request.
HttpCall(op, args, key, url, dest, arg, maxRetry, ctx) ==
  [op |-> op, args |-> args, key |-> key, url |-> url, dest |-> dest,
   arg |-> arg, fetches |-> 1, maxRetry |-> maxRetry, ctx |-> ctx,
   attempts |-> 1, phase |-> "inflight",
   request |-> HttpClient_Get_request(url)]

\* The same call before anything has been sent.
HttpNotSent(c) == [c EXCEPT !.attempts = 0, !.phase = "begin"]

NoResponse == [status |-> 0, err |-> NoErr]

\* What the call c, when it has returned, leaves in `last`.
HttpDone(c, event, resp, result, err) ==
  [op |-> c.op, args |-> c.args, url |-> c.url, arg |-> c.arg,
   maxRetry |-> c.maxRetry, ctx |-> c.ctx, event |-> event, phase |-> c.phase,
   attempts |-> c.attempts, status |-> resp.status, cause |-> resp.err,
   result |-> result, err |-> err]

\* client.Get(ctx, url, dest) called directly, as the fetcher's tests do.
HttpGet(url, arg, maxRetry, ctx) ==
  /\ calls = EmptyBag
  /\ LET b == HttpClient_Get_begin(url, arg)
         c == HttpCall("HttpGet", <<url>>, NoKey, url, Nil, arg, maxRetry, ctx)
     IN  IF b.returned
           THEN /\ last' = HttpDone(HttpNotSent(c), "rejected", NoResponse, Nil,
                                    b.err)
                /\ UNCHANGED calls
           ELSE /\ calls' = SetToBag({c})
                /\ last' = [op |-> "Attempt", url |-> url, attempts |-> 1,
                            request |-> c.request]
  /\ UNCHANGED cacheVars

\* Cep over a fetcher made by NewHttpClient(maxRetry).
HttpCep(cep, maxRetry, ctx) ==
  /\ calls = EmptyBag
  /\ LET key == ViaCep_Cep_key(cep)
         url == ViaCep_Cep_url(cep)
         a == ViaCep_afterGet(memoryCache_Get(data, key, ZeroValue("Address")))
         b == HttpClient_Get_begin(url, PtrToAddress)
         c == HttpCall("Cep", <<cep>>, key, url, ZeroValue("Address"),
                       PtrToAddress, maxRetry, ctx)
     IN  IF a.returns
           THEN /\ last' = HttpDone(HttpNotSent(c), "hit", NoResponse, a.result,
                                    a.err)
                /\ UNCHANGED calls
         ELSE IF b.returned
           THEN /\ last' = HttpDone(HttpNotSent(c), "rejected", NoResponse, Nil,
                                    b.err)
                /\ UNCHANGED calls
           ELSE /\ calls' = SetToBag({c})
                /\ last' = [op |-> "Attempt", url |-> url, attempts |-> 1,
                            request |-> c.request]
  /\ UNCHANGED cacheVars

\* req.Get(url) has returned resp to the call c, for the event given; body
\* is what a decoded response has put in dest.  Get returns, and so does the
\* Cep that called it.
HttpReturn(c, event, resp, body) ==
  LET err == HttpClient_Get_end(c.url, resp)
      s == IF c.op = "Cep" /\ err = NoErr
             THEN ViaCep_Cep_store(data, timers, c.key, body, now)
           ELSE IF c.op = "Cep"
             THEN ViaCep_Cep_onError(data, timers, c.key, c.dest, err, now)
           ELSE [err |-> NoErr, data |-> data, timers |-> timers]
  IN  /\ calls' = calls (-) SetToBag({c})
      /\ data' = s.data
      /\ timers' = s.timers
      /\ last' = HttpDone(c, event, resp, IF err = NoErr THEN body ELSE Nil, err)
      /\ UNCHANGED <<now, watch, mu, hist, gone>>

\* A response arrives for the attempt in flight.
HttpResponse(c, status, decodes, body) ==
  /\ BagIn(c, calls)
  /\ c.phase = "inflight"
  /\ Supported(c.url)
  /\ c.op = "Cep" => BagCardinality(timers) < MaxTimers
  /\ HttpReturn(c, "response", resty_response(c.url, status, decodes), body)

\* The attempt in flight fails to be sent or answered: another attempt
\* follows after the retry wait, or the failure is returned.
HttpTransportError(c) ==
  /\ BagIn(c, calls)
  /\ c.phase = "inflight"
  /\ IF resty_needsRetry(c.attempts, c.maxRetry)
       THEN /\ calls' = (calls (-) SetToBag({c}))
                          (+) SetToBag({[c EXCEPT !.phase = "waiting"]})
            /\ last' = [op |-> "Wait", url |-> c.url, attempts |-> c.attempts]
            /\ UNCHANGED cacheVars
       ELSE HttpReturn(c, "transport error", resty_transportError(c.url), Nil)

\* The retry wait is over: the next attempt is sent.
HttpRetry(c) ==
  /\ BagIn(c, calls)
  /\ c.phase = "waiting"
  /\ calls' = (calls (-) SetToBag({c}))
                (+) SetToBag({[c EXCEPT !.phase = "inflight",
                                        !.attempts = c.attempts + 1]})
  /\ last' = [op |-> "Attempt", url |-> c.url, attempts |-> c.attempts + 1,
              request |-> c.request]
  /\ UNCHANGED cacheVars

\* The context of the call ends (its deadline passes or it is cancelled).
HttpCtxDone(c) ==
  /\ BagIn(c, calls)
  /\ c.ctx # "background"
  /\ HttpReturn(c, "ctx done", resty_ctxDone(c.url, c.ctx, c.phase), c.dest)

InitHttp ==
  /\ data = newMemoryCache
  /\ timers = EmptyBag
  /\ now = 0
  /\ watch = NoKey
  /\ mu = Unlocked
  /\ hist = NoSet
  /\ gone = FALSE
  /\ calls = EmptyBag
  /\ last = [op |-> "new"]

HttpProgress ==
  \E c \in BagToSet(calls) :
     \/ \E status \in Statuses, decodes \in BOOLEAN, body \in CepBodies :
           HttpResponse(c, status, decodes, body)
     \/ HttpTransportError(c)
     \/ HttpRetry(c)
     \/ HttpCtxDone(c)

NextHttp ==
  \/ \E url \in HttpUrls, arg \in HttpDests, maxRetry \in Retries,
        ctx \in Contexts : HttpGet(url, arg, maxRetry, ctx)
  \/ \E maxRetry \in Retries, ctx \in Contexts : HttpCep("01001000", maxRetry, ctx)
  \/ \E c \in BagToSet(calls), status \in Statuses, decodes \in BOOLEAN,
        body \in CepBodies : HttpResponse(c, status, decodes, body)
  \/ \E c \in BagToSet(calls) : HttpTransportError(c)
  \/ \E c \in BagToSet(calls) : HttpRetry(c)
  \/ \E c \in BagToSet(calls) : HttpCtxDone(c)
  \/ \E t \in BagToSet(timers) : Expire(t)
  \/ Tick

SpecHttp == InitHttp /\ [][NextHttp]_vars

\* The network answers or fails every attempt and every retry wait ends.
SpecHttpFair == SpecHttp /\ WF_vars(HttpProgress)

(***************************************************************************)
(* Key derivation on its own: cacheKey applied to tuples of strings, among *)
(* them strings that hold the separator and the empty string.              *)
(***************************************************************************)
KeyParts ==
  {"RS", "Porto Alegre", "Domingos+Jose", "RS,Porto Alegre,Domingos+Jose", ""}

KeyTuples == UNION {[1..n -> KeyParts] : n \in 0..MaxParts}

DeriveKey(value) ==
  /\ last' = [op |-> "cacheKey", value |-> value, key |-> cacheKey(value)]
  /\ UNCHANGED <<cacheVars, calls>>

InitKeys ==
  /\ data = newMemoryCache
  /\ timers = EmptyBag
  /\ now = 0
  /\ watch = NoKey
  /\ mu = Unlocked
  /\ hist = NoSet
  /\ gone = FALSE
  /\ calls = EmptyBag
  /\ last = [op |-> "new"]

NextKeys == \E value \in KeyTuples : DeriveKey(value)

SpecKeys == InitKeys /\ [][NextKeys]_vars

(***************************************************************************)
(* The in-memory cache with its goroutines one statement at a time.  A     *)
(* call of Get, Set or Delete is a goroutine in `calls`, an expiry         *)
(* goroutine is one in `timers`; each has the statement it is at (pc) and  *)
(* what it holds of the mutex: "" nothing, "w" the writers' mutex while it *)
(* waits in Lock(), "W" the exclusive lock, "R" the shared lock.  Time is  *)
(* left out: a sleeping goroutine wakes at some moment.                    *)
(***************************************************************************)
LockKeys == {"user:1"}

LockValues == {AddressOf(AddrSe), [type |-> "chan int", val |-> <<>>]}

\* A time.Duration is an integer: the ttl may be negative.
LockTTLs == {0 - cacheTTL, 0, cacheTTL}

NoBytes == [exists |-> FALSE, bytes |-> InvalidData]

\* A goroutine that has just been called with these arguments.
Goroutine(op, key, value, ttl, pc) ==
  [op |-> op, key |-> key, value |-> value, ttl |-> ttl, pc |-> pc,
   holds |-> "", buf |-> NoBytes, found |-> FALSE, spawned |-> 0]

Slots == 1..MaxTimers

\* How many goroutines of the bag B are among those of S.
CopiesOf(S, B) ==
  LET n[T \in SUBSET S] ==
        IF T = {} THEN 0
        ELSE LET c == CHOOSE x \in T : TRUE
             IN  CopiesIn(c, B) + n[T \ {c}]
  IN  n[S]

\* The expiry goroutines the Sets in progress are still to start.
ToSpawn ==
  CopiesOf({c \in BagToSet(calls) : c.op = "Set" /\ c.ttl > 0 /\ c.spawned = 0},
           calls)

FreeSlot(tm) ==
  CHOOSE i \in Slots :
    /\ \A t \in BagToSet(tm) : t.id # i
    /\ \A j \in Slots : (\A t \in BagToSet(tm) : t.id # j) => i <= j

\* Faulty variant: no goroutine is started.
memoryCache_Set_go_never(tm, key, ttl) == tm

\* go func() { time.Sleep(ttl); _ = c.Delete(context.TODO(), key) }()
memoryCache_Set_go(tm, key, ttl) ==
  IF ttl > 0
    THEN tm (+) SetToBag({[id |-> FreeSlot(tm), key |-> key, pc |-> "Sleep",
                           holds |-> "", deletes |-> 0]})
    ELSE tm

\* What a step of a goroutine leaves in `last`: the call, the statement and
\* what the goroutine held of the mutex when it ran the statement.
Stepped(c, step) ==
  [op |-> c.op, step |-> step, key |-> c.key, holds |-> c.holds]

Move(c, d) == calls' = (calls (-) SetToBag({c})) (+) SetToBag({d})

\* A client of the cache calls Get, Set or Delete.
CallGet(key) ==
  /\ BagCardinality(calls) < MaxCalls
  /\ calls' = calls (+) SetToBag({Goroutine("Get", key, Nil, 0, "RLock")})
  /\ last' = [op |-> "Get", step |-> "call", key |-> key, holds |-> ""]
  /\ UNCHANGED cacheVars

CallSet(key, value, ttl) ==
  /\ BagCardinality(calls) < MaxCalls
  /\ ttl > 0 => BagCardinality(timers) + ToSpawn < MaxTimers
  /\ calls' = calls (+) SetToBag({Goroutine("Set", key, value, ttl, "encode")})
  /\ last' = [op |-> "Set", step |-> "call", key |-> key, holds |-> ""]
  /\ UNCHANGED cacheVars

CallDelete(key) ==
  /\ BagCardinality(calls) < MaxCalls
  /\ calls' = calls (+) SetToBag({Goroutine("Delete", key, Nil, 0, "Lock")})
  /\ last' = [op |-> "Delete", step |-> "call", key |-> key, holds |-> ""]
  /\ UNCHANGED cacheVars

\* Faulty variant: Set goes on to the map write without taking the lock.
memoryCache_Set_encoded_skipsLock(c) ==
  [c EXCEPT !.pc = "store",
            !.buf = [exists |-> TRUE, bytes |-> gobEncode(c.value)]]

\* Set once the value is encoded: the bytes are in the buffer and the next
\* statement is c.mu.Lock().
memoryCache_Set_encoded(c) ==
  [c EXCEPT !.pc = "Lock",
            !.buf = [exists |-> TRUE, bytes |-> gobEncode(c.value)]]

\* Set: encoder.Encode(value), and the return of the error if it fails.
SetEncode(c) ==
  /\ BagIn(c, calls)
  /\ c.op = "Set" /\ c.pc = "encode"
  /\ IF gobCanEncode(c.value)
       THEN /\ Move(c, memoryCache_Set_encoded(c))
            /\ last' = Stepped(c, "encode")
       ELSE /\ calls' = calls (-) SetToBag({c})
            /\ last' = Stepped(c, "return")
                         @@ [err |-> "failed to encode value of type "
                                       \o c.value.type \o ": "
                                       \o gobEncodeError(c.value),
                             ttl |-> c.ttl, spawned |-> c.spawned,
                             locked |-> FALSE]
  /\ UNCHANGED cacheVars

\* c.mu.Lock() of Set and of Delete, until it has the writers' mutex.
Lock(c) ==
  /\ BagIn(c, calls)
  /\ c.pc = "Lock"
  /\ RWMutex_canLock(mu)
  /\ mu' = RWMutex_Lock(mu)
  /\ Move(c, [c EXCEPT !.pc = "Lock.wait", !.holds = "w"])
  /\ last' = Stepped(c, "Lock")
  /\ UNCHANGED <<data, timers, now, watch, hist, gone>>

\* c.mu.Lock() returns.
LockReturn(c) ==
  /\ BagIn(c, calls)
  /\ c.pc = "Lock.wait"
  /\ RWMutex_drained(mu)
  /\ Move(c, [c EXCEPT !.pc = IF c.op = "Set" THEN "store" ELSE "delete",
                       !.holds = "W"])
  /\ last' = Stepped(c, "Lock.wait")
  /\ UNCHANGED cacheVars

\* Set: c.data[key] = buffer.Bytes(); if ttl > 0 { go func() ... }
SetStore(c) ==
  /\ BagIn(c, calls)
  /\ c.op = "Set" /\ c.pc = "store"
  /\ data' = memoryCache_Store(data, c.key, c.buf.bytes)
  /\ timers' = memoryCache_Set_go(timers, c.key, c.ttl)
  /\ Move(c, [c EXCEPT !.pc = "Unlock",
                       !.spawned = @ + BagCardinality(timers')
                                     - BagCardinality(timers)])
  /\ last' = Stepped(c, "store")
  /\ UNCHANGED <<now, watch, hist, gone, mu>>

\* Delete: delete(c.data, key)
DeleteEntry(c) ==
  /\ BagIn(c, calls)
  /\ c.op = "Delete" /\ c.pc = "delete"
  /\ data' = memoryCache_Delete(data, c.key)
  /\ Move(c, [c EXCEPT !.pc = "Unlock"])
  /\ last' = Stepped(c, "delete")
  /\ UNCHANGED <<timers, now, watch, hist, gone, mu>>

\* return nil of Set and of Delete, with the deferred c.mu.Unlock().
Unlock(c) ==
  /\ BagIn(c, calls)
  /\ c.pc = "Unlock"
  /\ mu' = RWMutex_Unlock(mu)
  /\ calls' = calls (-) SetToBag({c})
  /\ last' = Stepped(c, "return")
               @@ [err |-> NoErr, ttl |-> c.ttl, spawned |-> c.spawned,
                   locked |-> TRUE]
  /\ UNCHANGED <<data, timers, now, watch, hist, gone>>

\* Get: c.mu.RLock()
RLock(c) ==
  /\ BagIn(c, calls)
  /\ c.pc = "RLock"
  /\ RWMutex_canRLock(mu)
  /\ mu' = RWMutex_RLock(mu)
  /\ Move(c, [c EXCEPT !.pc = "lookup", !.holds = "R"])
  /\ last' = Stepped(c, "RLock")
  /\ UNCHANGED <<data, timers, now, watch, hist, gone>>

\* Get: serialized, exists := c.data[key]; if !exists { return false }
GetLookup(c) ==
  /\ BagIn(c, calls)
  /\ c.op = "Get" /\ c.pc = "lookup"
  /\ IF c.key \in DOMAIN data
       THEN Move(c, [c EXCEPT !.pc = "decode",
                              !.buf = [exists |-> TRUE, bytes |-> data[c.key]]])
       ELSE Move(c, [c EXCEPT !.pc = "RUnlock"])
  /\ last' = Stepped(c, "lookup")
  /\ UNCHANGED cacheVars

\* Get: decoder.Decode(dest), false if it fails and true otherwise.
GetDecode(c) ==
  /\ BagIn(c, calls)
  /\ c.op = "Get" /\ c.pc = "decode"
  /\ Move(c, [c EXCEPT !.pc = "RUnlock",
                       !.found = gobDecode(c.buf.bytes, ZeroValue("Address")).ok])
  /\ last' = Stepped(c, "decode")
  /\ UNCHANGED cacheVars

\* Get returns, with the deferred c.mu.RUnlock().
RUnlock(c) ==
  /\ BagIn(c, calls)
  /\ c.pc = "RUnlock"
  /\ mu' = RWMutex_RUnlock(mu)
  /\ calls' = calls (-) SetToBag({c})
  /\ last' = Stepped(c, "return") @@ [found |-> c.found]
  /\ UNCHANGED <<data, timers, now, watch, hist, gone>>

\* An expiry goroutine: time.Sleep(ttl) returns, then the statements of
\* Delete, then the goroutine ends.
TimerStep(t, u, step) ==
  /\ timers' = (timers (-) SetToBag({t})) (+) SetToBag({u})
  /\ last' = [op |-> "timer", step |-> step, key |-> t.key, holds |-> t.holds,
              id |-> t.id]

TimerWake(t) ==
  /\ BagIn(t, timers)
  /\ t.pc = "Sleep"
  /\ TimerStep(t, [t EXCEPT !.pc = "Lock"], "wake")
  /\ UNCHANGED <<data, now, watch, hist, gone, mu, calls>>

TimerLock(t) ==
  /\ BagIn(t, timers)
  /\ t.pc = "Lock"
  /\ RWMutex_canLock(mu)
  /\ mu' = RWMutex_Lock(mu)
  /\ TimerStep(t, [t EXCEPT !.pc = "Lock.wait", !.holds = "w"], "Lock")
  /\ UNCHANGED <<data, now, watch, hist, gone, calls>>

TimerLockReturn(t) ==
  /\ BagIn(t, timers)
  /\ t.pc = "Lock.wait"
  /\ RWMutex_drained(mu)
  /\ TimerStep(t, [t EXCEPT !.pc = "delete", !.holds = "W"], "Lock.wait")
  /\ UNCHANGED <<data, now, watch, hist, gone, mu, calls>>

TimerDelete(t) ==
  /\ BagIn(t, timers)
  /\ t.pc = "delete"
  /\ data' = memoryCache_Delete(data, t.key)
  /\ TimerStep(t, [t EXCEPT !.pc = "Unlock", !.deletes = @ + 1], "delete")
  /\ UNCHANGED <<now, watch, hist, gone, mu, calls>>

TimerUnlock(t) ==
  /\ BagIn(t, timers)
  /\ t.pc = "Unlock"
  /\ mu' = RWMutex_Unlock(mu)
  /\ timers' = timers (-) SetToBag({t})
  /\ last' = [op |-> "timer", step |-> "end", key |-> t.key, holds |-> t.holds,
              id |-> t.id, deletes |-> t.deletes]
  /\ UNCHANGED <<data, now, watch, hist, gone, calls>>

InitLock ==
  /\ data = newMemoryCache
  /\ timers = EmptyBag
  /\ now = 0
  /\ watch = NoKey
  /\ mu = Unlocked
  /\ hist = NoSet
  /\ gone = FALSE
  /\ calls = EmptyBag
  /\ last = [op |-> "new"]

\* A statement of a call in progress.
CallStep(c) ==
  \/ SetEncode(c)
  \/ Lock(c)
  \/ LockReturn(c)
  \/ SetStore(c)
  \/ DeleteEntry(c)
  \/ Unlock(c)
  \/ RLock(c)
  \/ GetLookup(c)
  \/ GetDecode(c)
  \/ RUnlock(c)

NextLock ==
  \/ \E key \in LockKeys : CallGet(key)
  \/ \E key \in LockKeys, value \in LockValues, ttl \in LockTTLs :
        CallSet(key, value, ttl)
  \/ \E key \in LockKeys : CallDelete(key)
  \/ \E c \in BagToSet(calls) : CallStep(c)
  \/ \E t \in BagToSet(timers) : TimerWake(t)
  \/ \E t \in BagToSet(timers) : TimerLock(t)
  \/ \E t \in BagToSet(timers) : TimerLockReturn(t)
  \/ \E t \in BagToSet(timers) : TimerDelete(t)
  \/ \E t \in BagToSet(timers) : TimerUnlock(t)

SpecLock == InitLock /\ [][NextLock]_vars

\* A statement of a goroutine that holds the lock, or that has the writers'
\* mutex and waits for the readers to leave.
HolderStep == \E c \in BagToSet(calls) : c.holds # "" /\ CallStep(c)

\* A statement of the expiry goroutine i other than getting the writers'
\* mutex.
TimerProgress(i) ==
  \E t \in BagToSet(timers) :
     /\ t.id = i
     /\ TimerWake(t) \/ TimerLockReturn(t) \/ TimerDelete(t) \/ TimerUnlock(t)

TimerAcquire(i) == \E t \in BagToSet(timers) : t.id = i /\ TimerLock(t)

\* The scheduler runs every goroutine that can run and time.Sleep returns;
\* a goroutine that keeps waiting for the writers' mutex is handed it
\* (sync.Mutex, starvation mode).
SpecLockFair ==
  /\ SpecLock
  /\ WF_vars(HolderStep)
  /\ \A i \in Slots : WF_vars(TimerProgress(i)) /\ SF_vars(TimerAcquire(i))

(***************************************************************************)
(* The in-memory cache called with contexts that can end.  `calls` holds   *)
(* the contexts that were passed to a Set and have not ended yet.          *)
(***************************************************************************)
\* Faulty variant: the end of the context stops the expiry goroutines of
\* the key it was passed with.
memoryCache_onCtxDone_stopsTimers(tm, key) ==
  [t \in {u \in BagToSet(tm) : u.key # key} |-> tm[t]]

\* What the end of a context does to the expiry goroutines: nothing.  Set
\* does not keep its ctx (the parameter is `_`), the goroutine calls Delete
\* with context.TODO() and no statement of it waits for ctx.Done().
memoryCache_onCtxDone(tm, key) == tm

\* Set(ctx, key, value, ttl) by a client of the cache.
SetCtx(ctx, key, value, ttl) ==
  /\ ttl > 0 => BagCardinality(timers) < MaxTimers
  /\ ctx # "background" => BagCardinality(calls) < MaxCalls
  /\ LET r == memoryCache_Set(data, timers, key, value, ttl, now)
     IN  /\ data' = r.data
         /\ timers' = r.timers
         /\ last' = [op |-> "Set", key |-> key, value |-> value, ttl |-> ttl,
                     err |-> r.err, ctx |-> ctx]
  /\ calls' = IF ctx = "background" THEN calls
              ELSE calls (+) SetToBag({[ctx |-> ctx, key |-> key]})
  /\ UNCHANGED <<now, watch, hist, gone, mu>>

\* A context that was passed to Set is cancelled, or its deadline passes.
CtxDone(c) ==
  /\ BagIn(c, calls)
  /\ calls' = calls (-) SetToBag({c})
  /\ timers' = memoryCache_onCtxDone(timers, c.key)
  /\ last' = [op |-> "CtxDone", key |-> c.key, ctx |-> c.ctx,
              err |-> ctxErr(c.ctx)]
  /\ UNCHANGED <<data, now, watch, hist, gone, mu>>

InitDetach == InitCache({NoKey}) /\ last = [op |-> "new"]

NextDetach ==
  \/ \E ctx \in Contexts, key \in LockKeys, value \in EncodableValues,
        ttl \in TTLs : SetCtx(ctx, key, value, ttl)
  \/ \E c \in BagToSet(calls) : CtxDone(c)
  \/ \E key \in LockKeys, destType \in DestTypes : Get(key, destType)
  \/ \E key \in LockKeys : Delete(key)
  \/ \E t \in BagToSet(timers) : Expire(t)
  \/ Tick

SpecDetach == InitDetach /\ [][NextDetach]_vars

(***************************************************************************)
(* Several ViaCep values made by New in one process.  Here `data` and      *)
(* `timers` are sequences: data[i] is the map of the memoryCache that the  *)
(* i-th New allocated and timers[i] the expiry goroutines that cache has   *)
(* started.  The clients are called through Cep.                           *)
(***************************************************************************)
\* Largest number of ViaCep values made.
MaxInstances == 2

InstanceCeps == {"01001000"}

\* Faulty variant: the new client is given the first client's entries.
ViaCep_New_reusesCache(d) ==
  Append(d, IF d = <<>> THEN newMemoryCache ELSE d[1])

\* return &ViaCep{httpClient: httpClient, cache: newMemoryCache()}
ViaCep_New(d) == Append(d, newMemoryCache)

\* Expiry goroutines asleep in the process.
RECURSIVE Asleep(_)
Asleep(tm) ==
  IF tm = <<>> THEN 0 ELSE BagCardinality(Head(tm)) + Asleep(Tail(tm))

New ==
  /\ Len(data) < MaxInstances
  /\ data' = ViaCep_New(data)
  /\ timers' = Append(timers, EmptyBag)
  /\ last' = [op |-> "New", inst |-> Len(data) + 1]
  /\ UNCHANGED <<now, watch, mu, hist, gone, calls>>

\* Cep on the i-th client, up to the call of the fetcher.
InstanceCep(i, cep) ==
  /\ i \in 1..Len(data)
  /\ BagCardinality(calls) < MaxCalls
  /\ LET r == memoryCache_Get(data[i], ViaCep_Cep_key(cep), ZeroValue("Address"))
     IN  IF r.found
           THEN /\ last' = [op |-> "Cep", inst |-> i, args |-> <<cep>>,
                            hit |-> TRUE, result |-> r.dest, err |-> NoErr]
                /\ UNCHANGED calls
           ELSE /\ calls' = calls (+) SetToBag({[inst |-> i, op |-> "Cep",
                                                 args |-> <<cep>>,
                                                 key |-> ViaCep_Cep_key(cep),
                                                 url |-> ViaCep_Cep_url(cep),
                                                 dest |-> r.dest]})
                /\ last' = [op |-> "Fetch", inst |-> i, call |-> "Cep",
                            args |-> <<cep>>, url |-> ViaCep_Cep_url(cep)]
  /\ UNCHANGED cacheVars

\* The fetcher has returned nil to a call of the c.inst-th client.
InstanceCepFetched(c, body) ==
  /\ BagIn(c, calls)
  /\ Asleep(timers) < MaxTimers
  /\ LET s == ViaCep_Cep_store(data[c.inst], timers[c.inst], c.key, body, now)
     IN  /\ data' = [data EXCEPT ![c.inst] = s.data]
         /\ timers' = [timers EXCEPT ![c.inst] = s.timers]
  /\ calls' = calls (-) SetToBag({c})
  /\ last' = [op |-> c.op, inst |-> c.inst, args |-> c.args, hit |-> FALSE,
              result |-> body, err |-> NoErr]
  /\ UNCHANGED <<now, watch, mu, hist, gone>>

\* The fetcher has returned an error.
InstanceCepFailed(c, err) ==
  /\ BagIn(c, calls)
  /\ err \in FetchErrors(c.url)
  /\ LET r == ViaCep_Cep_onError(data[c.inst], timers[c.inst], c.key, c.dest,
                                 err, now)
     IN  /\ data' = [data EXCEPT ![c.inst] = r.data]
         /\ timers' = [timers EXCEPT ![c.inst] = r.timers]
         /\ last' = [op |-> c.op, inst |-> c.inst, args |-> c.args,
                     hit |-> FALSE, result |-> r.result, err |-> r.err]
  /\ calls' = calls (-) SetToBag({c})
  /\ UNCHANGED <<now, watch, mu, hist, gone>>

\* An expiry goroutine of the i-th client's cache wakes and calls Delete on
\* the cache that started it.
InstanceExpire(i, t) ==
  /\ i \in 1..Len(timers)
  /\ BagIn(t, timers[i])
  /\ t.due <= now
  /\ timers' = [timers EXCEPT ![i] = @ (-) SetToBag({t})]
  /\ data' = [data EXCEPT ![i] = memoryCache_Delete(@, t.key)]
  /\ last' = [op |-> "Expire", inst |-> i, key |-> t.key]
  /\ UNCHANGED <<now, watch, mu, hist, gone, calls>>

InstanceTick ==
  /\ now < Horizon
  /\ \A i \in 1..Len(timers) : \A t \in BagToSet(timers[i]) : t.due > now
  /\ now' = now + Quantum
  /\ last' = [op |-> "Tick"]
  /\ UNCHANGED <<data, timers, watch, mu, hist, gone, calls>>

\* The process before the first New.
InitInstances ==
  /\ data = <<>>
  /\ timers = <<>>
  /\ now = 0
  /\ watch = NoKey
  /\ mu = Unlocked
  /\ hist = NoSet
  /\ gone = FALSE
  /\ calls = EmptyBag
  /\ last = [op |-> "start"]

NextInstances ==
  \/ New
  \/ \E i \in 1..MaxInstances, cep \in InstanceCeps : InstanceCep(i, cep)
  \/ \E c \in BagToSet(calls), body \in CepBodies : InstanceCepFetched(c, body)
  \/ \E c \in BagToSet(calls), err \in AllFetchErrors : InstanceCepFailed(c, err)
  \/ \E i \in 1..Len(timers) : \E t \in BagToSet(timers[i]) :
        InstanceExpire(i, t)
  \/ InstanceTick

SpecInstances == InitInstances /\ [][NextInstances]_vars

(***************************************************************************)
(* Properties of the in-memory cache                                       *)
(***************************************************************************)
GetOfWatched ==
  /\ last.op = "Get"
  /\ last.key = watch
  /\ hist.set
  /\ last.destBefore.type = hist.value.type

\* C1: round trip.  When Set(k, v, 0) has returned nil and neither Set nor
\* Delete has been called on k since, Get(k, dest) returns found = true and
\* leaves dest equal to v.
C1_RoundTrip ==
  (GetOfWatched /\ hist.ttl = 0 /\ ~hist.deleted)
    => (last.found /\ last.dest = hist.value)

C1_Witness ==
  /\ GetOfWatched /\ hist.ttl = 0 /\ ~hist.deleted
  /\ last.found
  /\ last.dest = AddressOf(AddrSe)
  /\ last.destBefore = AddressOf(ZeroAddress)

\* C2: expiry.  After Set(k, v, ttl) with ttl > 0 (and no Set or Delete on k
\* by a client of the cache since), a Get(k) before ttl has elapsed returns
\* found = true with dest = v, and a Get(k) after more than ttl has elapsed
\* returns found = false and leaves dest unmodified.
C2_Expiry ==
  (GetOfWatched /\ hist.ttl > 0)
    => /\ now < hist.at + hist.ttl => (last.found /\ last.dest = hist.value)
       /\ now > hist.at + hist.ttl
            => (~last.found /\ last.dest = last.destBefore)

\* C3: an entry stored with ttl = 0 never expires on its own.  Once
\* Set(k, v, 0) has returned nil, k stays present with value v until a client
\* of the cache calls Delete(k) or Set(k, ...).
C3_NoExpiryWithoutTTL ==
  (hist.set /\ hist.ttl = 0)
    => /\ watch \in DOMAIN data
       /\ memoryCache_Get(data, watch, ZeroValue(hist.value.type))
            = [found |-> TRUE, dest |-> hist.value]

\* C4: overwrite.  Set(k, v2, 0) over an entry already stored under k, be it
\* an earlier Set's or bytes that do not decode, replaces it: the Get(k) that
\* follows returns found = true and dest = v2.
C4_Overwrite ==
  (GetOfWatched /\ hist.ttl = 0 /\ ~hist.deleted /\ hist.prior # "absent")
    => (last.found /\ last.dest = hist.value)

C4_Witness ==
  /\ GetOfWatched /\ hist.ttl = 0 /\ ~hist.deleted
  /\ hist.prior = "invalid"
  /\ last.found
  /\ last.dest = hist.value

\* The messages cache_test.go expects of Set for the four values that gob
\* cannot encode.
ExpectedEncodeError(type) ==
  IF type = "chan int"
    THEN "failed to encode value of type chan int: gob NewTypeObject can't handle type: chan int"
  ELSE IF type = "func()"
    THEN "failed to encode value of type func(): gob NewTypeObject can't handle type: func()"
  ELSE IF type = "map[chan int]int"
    THEN "failed to encode value of type map[chan int]int: gob NewTypeObject can't handle type: chan int"
  ELSE "failed to encode value of type struct { x chan int }: gob: type struct { x chan int } has no exported fields"

\* C5: Set with a value gob cannot encode returns the error that names the
\* value's type and changes nothing: the map is as it was (an entry under the
\* key keeps its bytes, none is created) and no expiry goroutine is started.
C5_SetRejectsUnencodable ==
  [][(last'.op = "Set" /\ last'.value.type \in UnencodableTypes)
       => /\ last'.err = ExpectedEncodeError(last'.value.type)
          /\ last'.err # NoErr
          /\ data' = data
          /\ timers' = timers]_vars

C5_Witness ==
  /\ last.op = "Set"
  /\ last.value.type \in UnencodableTypes
  /\ last.ttl > 0
  /\ last.err # NoErr
  /\ last.key \in DOMAIN data

\* C6: Get returns found = false when the key is absent and when the stored
\* bytes do not decode into dest; in both cases dest keeps the value it had
\* before the call, and Get never changes the map.
C6_GetMiss ==
  [][last'.op = "Get"
       => /\ data' = data
          /\ timers' = timers
          /\ (\/ last'.key \notin DOMAIN data
              \/ data[last'.key].ty # last'.destBefore.type)
               => (~last'.found /\ last'.dest = last'.destBefore)]_vars

C6_Witness ==
  /\ last.op = "Get"
  /\ last.key \in DOMAIN data
  /\ data[last.key] = InvalidData
  /\ ~last.found
  /\ last.dest = last.destBefore

\* C7: Delete(k) returns nil and removes k, leaves every other key's entry as
\* it was, and is a no-op on an absent key; a Get(k) after it, with nothing
\* stored under k in between, returns found = false.
C7_Delete ==
  /\ [][last'.op = "Delete"
          => /\ last'.err = NoErr
             /\ DOMAIN data' = DOMAIN data \ {last'.key}
             /\ \A k \in DOMAIN data' : data'[k] = data[k]
             /\ last'.key \notin DOMAIN data => data' = data
             /\ timers' = timers]_vars
  /\ []((last.op = "Get" /\ last.key = watch /\ gone) => ~last.found)

C7_Witness ==
  /\ last.op = "Delete"
  /\ gone
  /\ last.key = watch
  /\ hist = NoSet
  /\ DOMAIN data # {}

(***************************************************************************)
(* Properties of the client                                                *)
(***************************************************************************)
ExpectedKey(op, args) == cacheKey(args)

ExpectedURL(op, args) ==
  IF op = "Cep"
    THEN "https://viacep.com.br/ws/" \o args[1] \o "/json/"
    ELSE "https://viacep.com.br/ws/" \o args[1] \o "/" \o args[2] \o "/"
           \o args[3] \o "/json/"

ExpectedType(op) == IF op = "Cep" THEN "Address" ELSE "[]Address"

\* A Cep(code) call has fetched, cached under the watched key and returned
\* its result, and that entry's TTL window is still open.
CepCachedAndFresh(args) ==
  /\ hist.set
  /\ hist.value.type = "Address"
  /\ ViaCep_Cep_key(args[1]) = watch
  /\ now < hist.at + cacheTTL

\* C8: client cache hit.  After Cep(code) has returned successfully, a
\* Cep(code) that starts within the TTL window returns an Address equal to
\* that result with nil error and calls the fetcher not at all.
C8_CacheHit ==
  /\ (last.op = "Fetch" /\ last.call = "Cep") => ~CepCachedAndFresh(last.args)
  /\ (last.op = "Cep" /\ last.hit /\ CepCachedAndFresh(last.args))
       => (last.result = hist.value /\ last.err = NoErr /\ last.fetches = 0)

\* C9: client miss path.  With no decodable entry under the derived key the
\* call is no hit and calls the fetcher once, with the operation's URL; when
\* the fetcher succeeds the call stores the fetched value under
\* cacheKey(arguments) with ttl = cacheTTL = 3600 s, touching no other key,
\* and returns the fetched value with nil error.
C9_MissPath ==
  [][/\ (last'.op \in {"Cep", "Addresses"} /\ last'.hit)
          => LET key == ExpectedKey(last'.op, last'.args)
             IN  /\ key \in DOMAIN data
                 /\ data[key].ty = ExpectedType(last'.op)
     /\ last'.op = "Fetch"
          => /\ last'.url = ExpectedURL(last'.call, last'.args)
             /\ \E c \in BagToSet(calls') :
                  /\ c.op = last'.call
                  /\ c.args = last'.args
                  /\ c.fetches = 1
                  /\ calls' = calls (+) SetToBag({c})
     /\ (last'.op \in {"Cep", "Addresses"} /\ ~last'.hit /\ last'.err = NoErr)
          => LET key == ExpectedKey(last'.op, last'.args)
             IN  /\ last'.fetches = 1
                 /\ last'.result = last'.fetched
                 /\ last'.result.type = ExpectedType(last'.op)
                 /\ DOMAIN data' = DOMAIN data \cup {key}
                 /\ memoryCache_Get(data', key, ZeroValue(ExpectedType(last'.op)))
                      = [found |-> TRUE, dest |-> last'.fetched]
                 /\ \A k \in DOMAIN data \ {key} : data'[k] = data[k]
                 /\ timers' = timers (+) SetToBag({[key |-> key, due |-> now + 3600]})
    ]_vars

C9_Witness ==
  /\ last.op = "Addresses"
  /\ ~last.hit
  /\ last.err = NoErr
  /\ last.result = AddressesOf(<<AddrPoli, AddrVarella>>)
  /\ BagCardinality(timers) = 2

\* C10: when the fetcher's Get returns an error, the call returns a nil
\* result with that same error after one fetcher call, and leaves the cache
\* as it was: no entry written, no expiry goroutine started.
C10_FetchError ==
  [][(last'.op \in {"Cep", "Addresses"} /\ ~last'.hit /\ last'.err # NoErr)
       => /\ last'.result = Nil
          /\ last'.err = last'.fetched
          /\ last'.fetches = 1
          /\ data' = data
          /\ timers' = timers]_vars

C10_Witness ==
  /\ last.op = "Cep"
  /\ ~last.hit
  /\ last.result = Nil
  /\ last.err \in FetchErrors(ViaCep_Cep_url("01001000"))
  /\ DOMAIN data # {}

(***************************************************************************)
(* Properties of the client over any cache                                 *)
(***************************************************************************)
\* C11: a cache Get that fails, whatever the reason (the key is absent, the
\* bytes do not decode, the backend does not answer), is never returned as an
\* error by Cep or Addresses.  A call returns at the lookup only on a hit and
\* then with nil error; whenever Get returns false the call goes on to the
\* fetcher, once, with the operation's URL; and an error a call returns is
\* the one the fetcher returned.
C11_GetFailureNotSurfaced ==
  [][/\ (last'.op \in {"Cep", "Addresses"} /\ last'.hit)
          => /\ last'.err = NoErr
             /\ calls' = calls
             /\ RedisCache_Get(data, ExpectedKey(last'.op, last'.args),
                               ZeroValue(ExpectedType(last'.op)),
                               last'.reply).found
     /\ last'.op = "Fetch"
          => /\ ~RedisCache_Get(data, ExpectedKey(last'.call, last'.args),
                                ZeroValue(ExpectedType(last'.call)),
                                last'.reply).found
             /\ \E c \in BagToSet(calls') :
                  /\ c.op = last'.call
                  /\ c.args = last'.args
                  /\ c.url = ExpectedURL(last'.call, last'.args)
                  /\ c.fetches = 1
                  /\ calls' = calls (+) SetToBag({c})
     /\ (last'.op \in {"Cep", "Addresses"} /\ last'.err # NoErr)
          => /\ ~last'.hit
             /\ last'.fetches = 1
             /\ last'.err = last'.fetched
             /\ last'.err \in FetchErrors(ExpectedURL(last'.op, last'.args))
    ]_vars

\* The backend does not answer although a decodable entry is stored under
\* the key: the call goes to the fetcher.
C11_Witness ==
  /\ last.op = "Fetch"
  /\ last.call = "Cep"
  /\ last.reply = "error"
  /\ ExpectedKey("Cep", last.args) \in DOMAIN data
  /\ data[ExpectedKey("Cep", last.args)].val.ty = "Address"

(***************************************************************************)
(* Properties of the key derivation                                        *)
(***************************************************************************)
\* The components of value[1..n] written one after the other with a comma
\* between neighbours.
RECURSIVE CommaSeparated(_, _)
CommaSeparated(value, n) ==
  IF n = 0 THEN ""
  ELSE IF n = 1 THEN value[1]
  ELSE CommaSeparated(value, n - 1) \o "," \o value[n]

\* C12: key derivation is deterministic.  Every key derived from a tuple is
\* the prefix "viacep:" followed by the hex digest of the tuple's components
\* joined by a comma, the empty tuple giving the digest of the empty string:
\* the key is a function of the tuple alone, so equal tuples have equal keys.
C12_KeyDeterministic ==
  last.op = "cacheKey"
    => /\ last.key = "viacep:" \o sha256Hex(CommaSeparated(last.value, Len(last.value)))
       /\ last.value = <<>> => last.key = "viacep:" \o sha256Hex("")

C12_Witness ==
  /\ last.op = "cacheKey"
  /\ last.value = <<"RS", "Porto Alegre", "Domingos+Jose">>
  /\ last.key = "viacep:sha256(RS,Porto Alegre,Domingos+Jose)"

\* C13: different tuples produce different keys.  The digest being injective,
\* no tuple other than the one a key was derived from has that key; so the
\* key of Cep(code) is never the key of Addresses(uf, cidade, logradouro).
C13_KeysDiffer ==
  last.op = "cacheKey"
    => \A T \in KeyTuples : T # last.value => cacheKey(T) # last.key

(***************************************************************************)
(* Properties of the HTTP fetcher                                          *)
(***************************************************************************)
\* A call of the fetcher, made directly or by Cep, has returned.
FetcherReturned(l) ==
  /\ l.op \in {"HttpGet", "Cep"}
  /\ l.event # "hit"

FailedToSend(url, cause) ==
  "failed to send GET request to " \o url \o ": " \o cause

\* C14: Get rejects a dest that is no pointer before anything else: it
\* returns "expected a pointer for 'dest', but got <type>" with no HTTP
\* attempt sent and none pending, whatever the URL and the retry count; no
\* call with such a dest is ever in flight.
C14_RejectsNonPointer ==
  /\ [](\A c \in BagToSet(calls) : c.arg.ptr)
  /\ [][(FetcherReturned(last') /\ ~last'.arg.ptr)
          => /\ last'.err = "expected a pointer for 'dest', but got "
                               \o last'.arg.type
             /\ last'.event = "rejected"
             /\ last'.attempts = 0
             /\ calls' = calls
             /\ data' = data]_vars

C14_Witness ==
  /\ last.op = "HttpGet"
  /\ last.event = "rejected"
  /\ last.err = "expected a pointer for 'dest', but got string"
  /\ last.url = "httpdd://invalid-url"
  /\ last.maxRetry = 1

C16_BoundedRetry ==
  /\ [](\A c \in BagToSet(calls) :
          /\ c.attempts >= 1
          /\ c.attempts <= c.maxRetry + 1
          /\ c.maxRetry = 0 => (c.attempts = 1 /\ c.phase = "inflight"))
  /\ [](FetcherReturned(last)
          => /\ last.attempts <= last.maxRetry + 1
             /\ last.event = "transport error"
                  => /\ last.attempts = last.maxRetry + 1
                     /\ last.err = FailedToSend(last.url, last.cause)
                     /\ last.cause # NoErr)
  /\ (calls # EmptyBag) ~> (calls = EmptyBag)

C16_Witness ==
  /\ last.op = "HttpGet"
  /\ last.event = "transport error"
  /\ last.maxRetry = 2
  /\ last.attempts = 3
  /\ last.ctx = "background"
  /\ last.err = "failed to send GET request to httpdd://invalid-url: Get \"httpdd://invalid-url\": unsupported protocol scheme \"httpdd\""

\* C17 as claimed: a context that is cancelled, or whose deadline passes,
\* while an attempt is in flight aborts the attempt and makes Get return a
\* deadline-exceeded error wrapped with the URL; Cep then returns
\* (nil, error) and writes nothing to the cache.
C17_DeadlineExceeded ==
  [][(FetcherReturned(last') /\ last'.event = "ctx done"
        /\ last'.phase = "inflight")
       => /\ last'.err = FailedToSend(last'.url,
                           "Get \"" \o last'.url \o "\": context deadline exceeded")
          /\ calls' = EmptyBag
          /\ last'.result = Nil
          /\ data' = data
          /\ timers' = timers]_vars

\* C17, amended: the error Get returns is the context's own error wrapped
\* with the URL: context deadline exceeded when the deadline has passed,
\* context canceled when the context was cancelled.
C17_ContextError ==
  [][(FetcherReturned(last') /\ last'.event = "ctx done"
        /\ last'.phase = "inflight")
       => /\ last'.err
               = FailedToSend(last'.url,
                   "Get \"" \o last'.url \o "\": "
                     \o (IF last'.ctx = "timeout" THEN "context deadline exceeded"
                         ELSE "context canceled"))
          /\ last'.ctx \in {"timeout", "cancel"}
          /\ calls' = EmptyBag
          /\ last'.result = Nil
          /\ data' = data
          /\ timers' = timers]_vars

C17_Witness ==
  /\ last.op = "Cep"
  /\ last.event = "ctx done"
  /\ last.phase = "inflight"
  /\ last.ctx = "timeout"
  /\ last.attempts = 2
  /\ last.result = Nil
  /\ last.err = "failed to send GET request to https://viacep.com.br/ws/01001000/json/: Get \"https://viacep.com.br/ws/01001000/json/\": context deadline exceeded"

(***************************************************************************)
(* Properties of RedisCache                                                *)
(***************************************************************************)
\* C18: RedisCache.Get makes one remote get and returns found = false,
\* leaving dest as it was, when the store does not have the key, when the
\* remote call fails, and when the bytes returned do not decode into dest;
\* it returns found = true, with dest the value whose encoding is stored,
\* only when the store returns bytes that decode.  It returns no error and
\* changes nothing at the store.
C18_RedisGet ==
  [][last'.op = "RedisGet"
       => LET key == last'.key
              decodable == /\ last'.reply = "OK"
                           /\ key \in DOMAIN data
                           /\ data[key].val.ty = last'.destBefore.type
          IN  /\ data' = data
              /\ last'.remote = <<[name |-> "GET", key |-> key]>>
              /\ last'.found <=> decodable
              /\ ~decodable => last'.dest = last'.destBefore
              /\ decodable => data[key].val = gobEncode(last'.dest)]_vars

C18_Witness ==
  /\ last.op = "RedisGet"
  /\ last.reply = "error"
  /\ last.key \in DOMAIN data
  /\ data[last.key].val = gobEncode(AddressOf(AddrSe))
  /\ last.destBefore = ZeroValue("Address")
  /\ ~last.found
  /\ last.dest = last.destBefore

\* What C19 says of every Set of a value that encodes: one remote set of the
\* key, the value's bytes and the caller's ttl, no expiry goroutine, and the
\* remote's failure wrapped in the error returned.
RedisSetForwards ==
  [][(last'.op = "RedisSet" /\ gobCanEncode(last'.value))
       => /\ last'.remote = <<[name |-> "SET", key |-> last'.key,
                               val |-> gobEncode(last'.value),
                               ttl |-> last'.ttl]>>
          /\ timers' = timers
          /\ last'.reply = "OK"
               => /\ last'.err = NoErr
                  /\ data'[last'.key] = [val |-> gobEncode(last'.value),
                                         ttl |-> last'.ttl]
          /\ last'.reply # "OK"
               => last'.err = "failed to set value in cache: " \o last'.reply
          /\ \A k \in DOMAIN data \ {last'.key} :
                k \in DOMAIN data' /\ data'[k] = data[k]]_vars

\* C19 as claimed: RedisCache.Set forwards one remote set(key, bytes, ttl)
\* with the caller's ttl as the entry's expiry and starts no local timer; if
\* the remote set fails, Set returns the error wrapping the cause and the
\* Get of that key that follows is a miss.
C19_RedisSet ==
  /\ RedisSetForwards
  /\ []((last.op = "RedisGet" /\ last.afterSet.failed) => ~last.found)

\* C19, amended: after a failed Set the Get of that key that follows is a
\* miss when the key was not at the store before the Set and the failed
\* write did not reach the store.
C19_RedisSetAbsentKey ==
  /\ RedisSetForwards
  /\ []((last.op = "RedisGet" /\ last.afterSet.failed
           /\ ~last.afterSet.had /\ ~last.afterSet.applied)
          => ~last.found)

C19_Witness ==
  /\ last.op = "RedisGet"
  /\ last.reply = "OK"
  /\ last.afterSet.failed
  /\ ~last.afterSet.had
  /\ ~last.afterSet.applied
  /\ ~last.found

\* C20: RedisCache.Set with a value gob cannot encode returns the encoding
\* error and makes no call to the remote store, which stays as it was.
C20_RedisSetRejectsUnencodable ==
  [][(last'.op = "RedisSet" /\ last'.value.type \in UnencodableTypes)
       => /\ last'.err = ExpectedEncodeError(last'.value.type)
          /\ last'.remote = <<>>
          /\ data' = data
          /\ timers' = timers]_vars

C20_Witness ==
  /\ last.op = "RedisSet"
  /\ last.value.type = "struct { x chan int }"
  /\ last.err # NoErr
  /\ last.remote = <<>>
  /\ last.ttl = 0
  /\ last.key \in DOMAIN data

\* C21: RedisCache.Delete makes exactly one remote delete, of the key it was
\* given.  When the remote delete succeeds it returns nil, the key is gone
\* from the store, the other keys are as they were and the Get of that key
\* that follows is a miss; when the remote delete fails it returns the
\* error "failed to delete key from cache: " followed by the cause.
C21_RedisDelete ==
  /\ [][last'.op = "RedisDelete"
          => /\ last'.remote = <<[name |-> "DEL", key |-> last'.key]>>
             /\ timers' = timers
             /\ last'.reply = "OK"
                  => /\ last'.err = NoErr
                     /\ last'.key \notin DOMAIN data'
             /\ last'.reply # "OK"
                  => last'.err
                       = "failed to delete key from cache: " \o last'.reply
             /\ \A k \in DOMAIN data \ {last'.key} :
                   k \in DOMAIN data' /\ data'[k] = data[k]]_vars
  /\ [][(/\ last.op = "RedisDelete"
         /\ last.err = NoErr
         /\ last'.op = "RedisGet"
         /\ last'.key = last.key)
          => /\ ~last'.found
             /\ last'.dest = last'.destBefore]_vars

C21_Witness ==
  /\ last.op = "RedisDelete"
  /\ last.reply = "error"
  /\ last.err = "failed to delete key from cache: error"
  /\ last.remote = <<[name |-> "DEL", key |-> "user:1"]>>
  /\ "user:1" \in DOMAIN data
  /\ data["user:1"].val = gobEncode(AddressOf(AddrSe))


(***************************************************************************)
(* Properties of the requests the fetcher sends                            *)
(***************************************************************************)
\* C22: every HTTP attempt of the fetcher's Get, the first one and each
\* retry, is a GET of the call's URL that carries the headers
\* Content-Type: application/json and Accept: application/json.
C22_AttemptIsJsonGet ==
  last.op = "Attempt"
    => /\ last.request.method = "GET"
       /\ last.request.url = last.url
       /\ {"Content-Type", "Accept"} \subseteq DOMAIN last.request.headers
       /\ last.request.headers["Content-Type"] = "application/json"
       /\ last.request.headers["Accept"] = "application/json"

C22_Witness ==
  /\ last.op = "Attempt"
  /\ last.attempts = MaxRetry + 1
  /\ last.url = ViaCep_Cep_url("01001000")
  /\ last.request.method = "GET"
  /\ last.request.headers["Accept"] = "application/json"


(***************************************************************************)
(* Properties of the expiry goroutines                                     *)
(***************************************************************************)
\* C23: the goroutine started by Set(k, v1, ttl1 > 0) deletes k when it
\* wakes, whatever is stored under k by then: after every step of an expiry
\* goroutine its key is not in the map and a Get of it is a miss, also when
\* the entry was written by a later Set whose own lifetime has not ended.
\* The execution Set(k, v1, ttl1); Set(k, v2, 0); goroutine 1 wakes; Get(k)
\* with found = false is the state C23_Witness.
C23_StaleTimerDeletes ==
  [][last'.op = "Expire"
       => /\ last'.key \notin DOMAIN data'
          /\ \A destType \in DestTypes :
                ~memoryCache_Get(data', last'.key, ZeroValue(destType)).found
          /\ (last'.key = watch /\ hist.set)
                => (hist'.set /\ hist'.deleted /\ hist'.value = hist.value)]_vars

C23_Witness ==
  /\ GetOfWatched
  /\ hist.ttl = 0
  /\ hist.deleted
  /\ hist.value = AddressOf(AddrSe)
  /\ last.destBefore = ZeroValue("Address")
  /\ ~last.found
  /\ last.dest = last.destBefore


(***************************************************************************)
(* Properties of the cache's lock                                          *)
(***************************************************************************)
\* The goroutines, calls and expiry goroutines, that hold h of the mutex.
Holding(h) ==
  CopiesOf({c \in BagToSet(calls) : c.holds = h}, calls)
    + CopiesOf({t \in BagToSet(timers) : t.holds = h}, timers)

\* C24: every read and every write of the map is made by a goroutine that
\* holds the cache's lock: the lookup and the decode of Get under the shared
\* lock, the map write of Set and the delete of Delete, called by a client
\* or by an expiry goroutine, under the exclusive lock, and the map changes
\* in no other step.  In every reachable state at most one goroutine holds
\* the exclusive lock and none holds the shared lock together with it.
C24_LockDiscipline ==
  /\ [](/\ Holding("W") <= 1
        /\ Holding("W") = 1 => Holding("R") = 0
        /\ mu.readers = Holding("R")
        /\ mu.w <=> Holding("w") + Holding("W") = 1)
  /\ [][/\ last'.step \in {"store", "delete"} => last'.holds = "W"
        /\ last'.step \in {"lookup", "decode"} => last'.holds = "R"
        /\ data' # data
             => last'.step \in {"store", "delete"} /\ last'.holds = "W"]_vars

C24_Witness ==
  /\ \E t \in BagToSet(timers) : t.holds = "W" /\ t.pc = "delete"
  /\ \E c \in BagToSet(calls) : c.op = "Get" /\ c.pc = "RLock"
  /\ \E c \in BagToSet(calls) : c.op = "Set" /\ c.pc = "Lock"
  /\ "user:1" \in DOMAIN data
  /\ mu = [w |-> TRUE, readers |-> 0]


\* C25 as claimed: Set takes the exclusive lock on every call and before it
\* serializes the value: the encoding and the map write are both made
\* under the exclusive lock, and a call whose value does not encode has
\* taken the lock too.
C25_LockBeforeEncode ==
  [][last'.op = "Set"
       => /\ last'.step \in {"encode", "store"} => last'.holds = "W"
          /\ last'.step = "return" => last'.locked]_vars

\* C25, amended: Set serializes the value before it takes the lock and
\* holding nothing.  A call whose value does not encode returns the error
\* without having taken the lock and leaves the mutex, the map and the
\* expiry goroutines as they were; a call whose value encodes then takes the
\* exclusive lock and makes the map write under it.
C25_EncodeBeforeLock ==
  [][last'.op = "Set"
       => /\ last'.step = "encode" => last'.holds = ""
          /\ last'.step = "store" => last'.holds = "W"
          /\ last'.step = "return"
               => /\ last'.locked <=> last'.err = NoErr
                  /\ last'.locked <=> last'.holds = "W"
                  /\ ~last'.locked
                       => (mu' = mu /\ data' = data /\ timers' = timers)]_vars

C25_Witness ==
  /\ last.op = "Set"
  /\ last.step = "return"
  /\ last.err = "failed to encode value of type chan int: gob NewTypeObject can't handle type: chan int"
  /\ ~last.locked
  /\ last.holds = ""
  /\ mu.w
  /\ Holding("W") = 1


\* The expiry goroutines of the bag tm that are no longer in the bag tn.
Ended(tm, tn) == {t \in BagToSet(tm) : CopiesIn(t, tn) < CopiesIn(t, tm)}

\* C26: the expiry goroutines are detached from the contexts and from
\* Delete.  The end of a context that was passed to Set and a Delete of the
\* key by a client leave every pending expiry goroutine pending; a pending
\* goroutine ends only by waking, no sooner than ttl after its Set and
\* before the clock has passed that instant, and it then removes whatever
\* is stored under its key.
C26_TimersDetached ==
  /\ [][/\ last'.op \in {"CtxDone", "Delete"} => timers' = timers
        /\ last'.op = "CtxDone" => data' = data
        /\ \A t \in Ended(timers, timers') :
              /\ last' = [op |-> "Expire", key |-> t.key]
              /\ now >= t.due
              /\ t.key \notin DOMAIN data'
              /\ Ended(timers, timers') = {t}]_vars
  /\ [](\A t \in BagToSet(timers) : t.due >= now)

\* The context passed to a Set with a ttl is cancelled half a ttl later:
\* the entry is still stored and the expiry goroutine still pending.
C26_Witness ==
  /\ last = [op |-> "CtxDone", key |-> "user:1", ctx |-> "cancel",
             err |-> "context canceled"]
  /\ now = Quantum
  /\ calls = EmptyBag
  /\ timers = SetToBag({[key |-> "user:1", due |-> cacheTTL]})
  /\ "user:1" \in DOMAIN data

\* A statement of some goroutine, call or expiry goroutine.
GoroutineStep ==
  \/ \E c \in BagToSet(calls) : CallStep(c)
  \/ \E t \in BagToSet(timers) :
        \/ TimerWake(t)
        \/ TimerLock(t)
        \/ TimerLockReturn(t)
        \/ TimerDelete(t)
        \/ TimerUnlock(t)

SlotBusy(i) == \E t \in BagToSet(timers) : t.id = i

\* C27: a Set that returns nil with ttl > 0 has started exactly one expiry
\* goroutine, and a Set with ttl <= 0 or with an encoding error none; a
\* goroutine is started only by the store step of a Set, under the exclusive
\* lock.  An expiry goroutine ends having held the exclusive lock and made
\* exactly one delete.  While a goroutine is alive some goroutine can take
\* a step (no deadlock), and under fair scheduling every expiry goroutine
\* that was started ends.
C27_OneTimerPerSet ==
  /\ [][/\ (last'.op = "Set" /\ last'.step = "return")
             => last'.spawned
                  = (IF last'.err = NoErr /\ last'.ttl > 0 THEN 1 ELSE 0)
        /\ BagCardinality(timers') > BagCardinality(timers)
             => /\ last'.op = "Set" /\ last'.step = "store"
                /\ last'.holds = "W"
                /\ BagCardinality(timers') = BagCardinality(timers) + 1
        /\ (last'.op = "timer" /\ last'.step = "end")
             => (last'.deletes = 1 /\ last'.holds = "W")]_vars
  /\ [](\A t \in BagToSet(timers) : t.deletes <= 1 /\ CopiesIn(t, timers) = 1)
  /\ []((calls # EmptyBag \/ timers # EmptyBag) => ENABLED GoroutineStep)
  /\ \A i \in Slots : SlotBusy(i) ~> ~SlotBusy(i)

\* An expiry goroutine has been started by a Set that still holds the lock,
\* has woken and waits for the lock.
C27_Witness ==
  /\ \E c \in BagToSet(calls) :
        c.op = "Set" /\ c.pc = "Unlock" /\ c.holds = "W" /\ c.spawned = 1
  /\ timers = SetToBag({[id |-> 1, key |-> "user:1", pc |-> "Lock",
                         holds |-> "", deletes |-> 0]})
  /\ mu.w


\* The entry under k, or that there is none.
EntryOf(d, k) == IF k \in DOMAIN d THEN <<d[k]>> ELSE <<>>

\* The expiry goroutines of the bag tm that are for the key k.
TimersOf(tm, k) == [t \in {u \in BagToSet(tm) : u.key = k} |-> tm[t]]

\* C28: an expiry goroutine touches only its own key, and so do Set and
\* Delete.  When the goroutine started by Set(k, ...) wakes, when Set(k, ...)
\* is called and when Delete(k) is called, every other key has the entry it
\* had, or none if it had none, and the expiry goroutines pending for the
\* other keys are the same.
C28_OwnKeyOnly ==
  [][last'.op \in {"Expire", "Set", "Delete"}
       => \A k \in TestKeys \ {last'.key} :
             /\ EntryOf(data', k) = EntryOf(data, k)
             /\ TimersOf(timers', k) = TimersOf(timers, k)]_vars

C28_Witness ==
  /\ last = [op |-> "Expire", key |-> "user:1"]
  /\ "user:1" \notin DOMAIN data
  /\ "user:2" \in DOMAIN data
  /\ data["user:2"] = gobEncode(AddressesOf(<<AddrPoli, AddrVarella>>))
  /\ timers = SetToBag({[key |-> "user:2", due |-> cacheTTL + Quantum]})
  /\ now = cacheTTL


(***************************************************************************)
(* Properties of what the client keeps in its cache                        *)
(***************************************************************************)
\* A failed fetch leaves the map and the expiry goroutines as they were.
FailedFetchStoresNothing ==
  [][(last'.op \in {"Cep", "Addresses"} /\ ~last'.hit /\ last'.err # NoErr)
       => (data' = data /\ timers' = timers)]_vars

\* What Cep returns from a hit is the value of the last successful fetch
\* stored under the key, and that was a fetch of Cep.
CepHitIsFetchedValue ==
  (last.op = "Cep" /\ last.hit /\ ViaCep_Cep_key(last.args[1]) = watch)
    => /\ hist.set
       /\ last.result = hist.value
       /\ hist.value \in CepBodies
       /\ last.err = NoErr

\* C29: the client's cache holds only values of successful fetches.  An
\* entry under cacheKey(code) is written only by a Cep call for that code
\* whose fetcher returned nil, and is the encoding of the Address fetched;
\* what Cep returns from a hit is the value of an earlier successful fetch
\* for the code; a failed fetch leaves the cache as it was.
C29_OnlyFetchedValues ==
  /\ [][\A code \in Ceps :
          LET key == ViaCep_Cep_key(code)
          IN  (key \in DOMAIN data' /\ EntryOf(data', key) # EntryOf(data, key))
                => /\ last'.op = "Cep"
                   /\ last'.args = <<code>>
                   /\ ~last'.hit
                   /\ last'.err = NoErr
                   /\ last'.fetched \in CepBodies
                   /\ data'[key] = gobEncode(last'.fetched)]_vars
  /\ []CepHitIsFetchedValue
  /\ FailedFetchStoresNothing


\* C30: when the calls on an instance do not overlap, every key has at most
\* one expiry goroutine pending at any moment, and the entry a Cep or an
\* Addresses call has stored stays in the map, as stored, until cacheTTL has
\* passed since the call stored it.
C30_OneTimerPerKey ==
  /\ \A k \in ClientKeys : BagCardinality(TimersOf(timers, k)) <= 1
  /\ (hist.set /\ now < hist.at + hist.ttl)
       => /\ watch \in DOMAIN data
          /\ data[watch] = gobEncode(hist.value)
          /\ ~hist.deleted


\* The call record of a Cep or Addresses call that has missed.
Missed(op, args) ==
  [op |-> op, args |-> args, key |-> ExpectedKey(op, args),
   url |-> ExpectedURL(op, args), dest |-> ZeroValue(ExpectedType(op)),
   fetches |-> 1]

\* C31: no request coalescing.  A call that finds no decodable entry makes
\* its own request to the fetcher, also when other calls for the same input
\* are already waiting for theirs, so the requests in progress for a code
\* are as many as the calls that missed; every call whose fetch succeeds
\* calls cache.Set and starts its own expiry goroutine, also when the entry
\* is already there.
C31_NoCoalescing ==
  /\ [][/\ last'.op = "Fetch"
             => LET c == Missed(last'.call, last'.args)
                IN  /\ ~memoryCache_Get(data, c.key, c.dest).found
                    /\ CopiesIn(c, calls') = CopiesIn(c, calls) + 1
                    /\ calls' = calls (+) SetToBag({c})
        /\ (last'.op \in {"Cep", "Addresses"} /\ ~last'.hit /\ last'.err = NoErr)
             => LET c == Missed(last'.op, last'.args)
                IN  /\ CopiesIn(c, calls') = CopiesIn(c, calls) - 1
                    /\ data'[c.key] = gobEncode(last'.fetched)
                    /\ timers' = timers (+) SetToBag({[key |-> c.key,
                                                       due |-> now + cacheTTL]})]_vars
  /\ [](\A c \in BagToSet(calls) : c.fetches = 1)

\* Two Cep calls for one code have overlapped on a cold cache: both missed,
\* both fetched and both stored, and two expiry goroutines are pending for
\* the key.
C31_Witness ==
  /\ last.op = "Cep"
  /\ last.args = <<"01001000">>
  /\ ~last.hit
  /\ last.err = NoErr
  /\ last.fetches = 1
  /\ now = 0
  /\ calls = EmptyBag
  /\ CopiesIn([key |-> ViaCep_Cep_key("01001000"), due |-> cacheTTL], timers)
       = 2


(***************************************************************************)
(* Properties of the client when the cache write fails                     *)
(***************************************************************************)
\* A Cep or Addresses call has returned after a successful fetch: only then
\* was cache.Set called and its outcome recorded.
FetchSucceeded(l) ==
  /\ l.op \in {"Cep", "Addresses"}
  /\ "setErr" \in DOMAIN l

\* Whenever the fetch succeeded the call returns the fetched value with nil
\* error, whatever cache.Set returned.
SetFailureDiscarded ==
  [][FetchSucceeded(last')
       => (last'.result = last'.fetched /\ last'.err = NoErr)]_vars

\* The step is the start of the next call, for the same input, after a
\* call whose fetch succeeded and whose cache.Set failed.
NextCallAfterFailedSet ==
  /\ FetchSucceeded(last)
  /\ last.setErr # NoErr
  /\ \/ last'.op = last.op /\ last'.args = last.args /\ last'.hit
     \/ last'.op = "Fetch" /\ last'.call = last.op /\ last'.args = last.args

\* C32 as claimed: a failure of cache.Set in Cep or Addresses is discarded,
\* the call returns the fetched value with nil error, and the next call for
\* the same input misses and fetches again.
C32_SetFailureThenMiss ==
  /\ SetFailureDiscarded
  /\ [][NextCallAfterFailedSet => last'.op = "Fetch"]_vars

\* C32, amended: a failure of cache.Set is discarded and the call returns the
\* fetched value with nil error; a call for the same input that starts right
\* after it misses and fetches again when no entry was stored under the key
\* before the failed write and the write did not reach the store.
C32_SetFailureThenMissIfAbsent ==
  /\ SetFailureDiscarded
  /\ [][(NextCallAfterFailedSet /\ ~last.had /\ ~last.applied)
          => (last'.op = "Fetch" /\ data' = data)]_vars

C32_Witness ==
  /\ last.op = "Cep"
  /\ "setErr" \in DOMAIN last
  /\ last.fetched = AddressOf(AddrSe)
  /\ last.setErr = "failed to set value in cache: error"
  /\ ~last.had
  /\ ~last.applied
  /\ last.result = AddressOf(AddrSe)
  /\ last.err = NoErr
  /\ data = <<>>


(***************************************************************************)
(* Properties of Cep and Addresses sharing a cache key                     *)
(***************************************************************************)
\* The entry under the key holds a value of the other operation's type.
HoldsOther(d, op, args) ==
  /\ ExpectedKey(op, args) \in DOMAIN d
  /\ d[ExpectedKey(op, args)].ty \in DestTypes \ {ExpectedType(op)}

\* C33: Cep never returns what Addresses cached and Addresses never returns
\* what Cep cached.  A hit of either operation is read from an entry of its
\* own type; a lookup that finds the other operation's entry under its key
\* is a miss and asks its own endpoint; and the Set after a successful fetch
\* replaces whatever the key held by the encoding of the value fetched.
C33_NoCrossOperationHit ==
  [][/\ (last'.op \in {"Cep", "Addresses"} /\ last'.hit)
          => /\ ~HoldsOther(data, last'.op, last'.args)
             /\ data[ExpectedKey(last'.op, last'.args)].ty = ExpectedType(last'.op)
             /\ last'.result.type = ExpectedType(last'.op)
             /\ gobEncode(last'.result) = data[ExpectedKey(last'.op, last'.args)]
     /\ (last'.op = "Fetch" /\ HoldsOther(data, last'.call, last'.args))
          => /\ last'.url = ExpectedURL(last'.call, last'.args)
             /\ CopiesIn(Missed(last'.call, last'.args), calls')
                  = CopiesIn(Missed(last'.call, last'.args), calls) + 1
             /\ data' = data
     /\ (last'.op \in {"Cep", "Addresses"} /\ ~last'.hit /\ last'.err = NoErr)
          => /\ last'.result = last'.fetched
             /\ last'.result.type = ExpectedType(last'.op)
             /\ data'[ExpectedKey(last'.op, last'.args)] = gobEncode(last'.fetched)
             /\ ~HoldsOther(data', last'.op, last'.args)]_vars

\* Cep's lookup has just missed on the list that Addresses stored under the
\* key both derive, and its request to /ws/<code>/json/ is under way.
C33_Witness ==
  /\ last.op = "Fetch"
  /\ last.call = "Cep"
  /\ last.args = <<"RS,Porto Alegre,Domingos+Jose">>
  /\ last.url = ViaCep_Cep_url("RS,Porto Alegre,Domingos+Jose")
  /\ ViaCep_Cep_key("RS,Porto Alegre,Domingos+Jose")
       = ViaCep_Addresses_key("RS", "Porto Alegre", "Domingos+Jose")
  /\ ViaCep_Cep_key("RS,Porto Alegre,Domingos+Jose") \in DOMAIN data
  /\ data[ViaCep_Cep_key("RS,Porto Alegre,Domingos+Jose")]
       = gobEncode(AddressesOf(<<AddrPoli, AddrVarella>>))
  /\ BagToSet(calls) = {Missed("Cep", <<"RS,Porto Alegre,Domingos+Jose">>)}


(***************************************************************************)
(* Properties of several clients in one process                            *)
(***************************************************************************)
\* Every cache but the i-th, and its goroutines, are as before the step.
OthersUntouched(i) ==
  \A j \in 1..Len(data) :
     j # i => (data'[j] = data[j] /\ timers'[j] = timers[j])

\* C34: each ViaCep made by New owns a fresh in-memory cache.  New adds an
\* empty cache with no goroutine and leaves the existing ones alone; a hit
\* of a client is read from that client's own cache, so a key held only by
\* another client's cache is a miss; and a store after a fetch, a failed
\* fetch or an expiry goroutine's Delete on one client's cache changes no
\* other client's cache or goroutines.
C34_OwnFreshCache ==
  [][/\ last'.op = "New"
          => /\ Len(data') = Len(data) + 1
             /\ last'.inst = Len(data')
             /\ data'[last'.inst] = <<>>
             /\ timers'[last'.inst] = EmptyBag
             /\ OthersUntouched(last'.inst)
     /\ last'.op = "Cep"
          => /\ OthersUntouched(last'.inst)
             /\ Len(data') = Len(data)
             /\ last'.hit
                  => /\ ExpectedKey(last'.op, last'.args) \in DOMAIN data[last'.inst]
                     /\ data[last'.inst][ExpectedKey(last'.op, last'.args)]
                          = gobEncode(last'.result)
                     /\ data' = data
     /\ last'.op = "Fetch"
          => /\ memoryCache_Get(data[last'.inst],
                                ExpectedKey(last'.call, last'.args),
                                ZeroValue(ExpectedType(last'.call))).found = FALSE
             /\ data' = data
             /\ timers' = timers
     /\ last'.op = "Expire"
          => /\ OthersUntouched(last'.inst)
             /\ Len(data') = Len(data)
             /\ last'.key \notin DOMAIN data'[last'.inst]]_vars

\* The first client holds the Address it fetched for 01001000, and the same
\* call on the second client has just missed and asks the service.
C34_Witness ==
  /\ Len(data) = 2
  /\ last.op = "Fetch"
  /\ last.inst = 2
  /\ last.call = "Cep"
  /\ last.args = <<"01001000">>
  /\ ViaCep_Cep_key("01001000") \in DOMAIN data[1]
  /\ data[1][ViaCep_Cep_key("01001000")] = gobEncode(AddressOf(AddrSe))
  /\ data[2] = <<>>
  /\ BagCardinality(timers[1]) = 1
  /\ timers[2] = EmptyBag


====
